---- MODULE Spec2Model ----
(***************************************************************************)
(* Model of the Orbit AI backend conversation state machine               *)
(* (orbit_ai_backend/core/conversation.py, models/conversation.py,        *)
(* utils/validators.py, utils/defaults.py).                                *)
(*                                                                         *)
(* Messages are real strings.  Python's str operations (lower, strip,      *)
(* split, title, substring test, the regular expressions of the           *)
(* extractors) are computed character by character on them.               *)
(***************************************************************************)
EXTENDS Integers, Sequences, FiniteSets, TLC

(***************************************************************************)
(* Bounds of the model.                                                    *)
(***************************************************************************)
\* a session takes at most MaxTurns turns (its transcript is unbounded in the code)
MaxTurns == 11

\* the number of messages of the client of the service specification
MaxServiceTurns == 10

\* the clock of the store specification stops at MaxTime
MaxTime == 3

\* the number of messages a session of the store specification takes
MaxStoreTurns == 2

(***************************************************************************)
(* Python None.  Optional results of the extractors are sequences:         *)
(* <<>> is None and <<v>> is the value v.                                  *)
(***************************************************************************)
None == "<None>"

Nothing == <<>>

Some(v) == <<v>>

(***************************************************************************)
(* Characters and character classes.                                       *)
(***************************************************************************)
UpperAlpha == "ABCDEFGHIJKLMNOPQRSTUVWXYZ"

LowerAlpha == "abcdefghijklmnopqrstuvwxyz"

Digits == "0123456789"

\* s[i-1:j] of Python: the characters i..j of s, clipped to the string
Slice(s, i, j) ==
    LET a == IF i < 1 THEN 1 ELSE i
        b == IF j > Len(s) THEN Len(s) ELSE j
    IN  IF a > b THEN "" ELSE SubSeq(s, a, b)

Ch(s, i) == Slice(s, i, i)

InStr(c, alphabet) == \E i \in 1..Len(alphabet) : Ch(alphabet, i) = c

IndexOf(c, alphabet) == CHOOSE i \in 1..Len(alphabet) : Ch(alphabet, i) = c

IsUpper(c) == InStr(c, UpperAlpha)

IsLower(c) == InStr(c, LowerAlpha)

IsAlpha(c) == IsUpper(c) \/ IsLower(c)

IsDigit(c) == InStr(c, Digits)

IsAlnum(c) == IsAlpha(c) \/ IsDigit(c)

\* \s of the re module, restricted to the whitespace a chat message carries
IsSpace(c) == c \in {" ", "\t", "\n", "\r"}

\* \w of the re module (ASCII)
IsWordChar(c) == IsAlnum(c) \/ c = "_"

\* [a-fA-F0-9]
IsHex(c) == IsDigit(c) \/ InStr(c, "abcdefABCDEF")

LowerChar(c) == IF IsUpper(c) THEN Ch(LowerAlpha, IndexOf(c, UpperAlpha)) ELSE c

UpperChar(c) == IF IsLower(c) THEN Ch(UpperAlpha, IndexOf(c, LowerAlpha)) ELSE c

(***************************************************************************)
(* str.lower(), str.strip(), `kw in s`, str.startswith(), str.split(),     *)
(* str.title(), str.replace(" ", "-"), int(digits).                        *)
(***************************************************************************)
RECURSIVE LowerFrom(_, _)
LowerFrom(s, i) == IF i > Len(s) THEN "" ELSE LowerChar(Ch(s, i)) \o LowerFrom(s, i + 1)

Lower(s) == LowerFrom(s, 1)

Strip(s) ==
    LET nonws == {i \in 1..Len(s) : ~IsSpace(Ch(s, i))}
    IN  IF nonws = {} THEN ""
        ELSE Slice(s, CHOOSE i \in nonws : \A j \in nonws : i <= j,
                       CHOOSE i \in nonws : \A j \in nonws : j <= i)

Contains(kw, s) == \E i \in 1..(Len(s) - Len(kw) + 1) : Slice(s, i, i + Len(kw) - 1) = kw

ContainsAny(kws, s) == \E kw \in kws : Contains(kw, s)

StartsWith(s, p) == Len(p) <= Len(s) /\ Slice(s, 1, Len(p)) = p

\* character classes of the regular expressions, by name
InClass(cls, c) ==
    CASE cls = "digit" -> IsDigit(c)
      [] cls = "space" -> IsSpace(c)
      [] cls = "nonspace" -> ~IsSpace(c)
      [] cls = "alnum" -> IsAlnum(c)
      [] cls = "alnumspace" -> IsAlnum(c) \/ IsSpace(c)
      [] cls = "hex" -> IsHex(c)

\* the end of the longest run of characters of class cls that starts at i
\* (i - 1 when the character at i is outside the class)
RECURSIVE RunEnd(_, _, _)
RunEnd(s, i, cls) ==
    IF i <= Len(s) /\ InClass(cls, Ch(s, i)) THEN RunEnd(s, i + 1, cls) ELSE i - 1

RECURSIVE SplitFrom(_, _)
SplitFrom(s, i) ==
    IF i > Len(s) THEN <<>>
    ELSE IF IsSpace(Ch(s, i)) THEN SplitFrom(s, i + 1)
    ELSE LET e == RunEnd(s, i, "nonspace")
         IN  <<Slice(s, i, e)>> \o SplitFrom(s, e + 1)

Split(s) == SplitFrom(s, 1)

RECURSIVE TitleFrom(_, _)
TitleFrom(s, i) ==
    IF i > Len(s) THEN ""
    ELSE LET c == Ch(s, i)
             prevCased == i > 1 /\ IsAlpha(Ch(s, i - 1))
         IN  (IF prevCased THEN LowerChar(c) ELSE UpperChar(c)) \o TitleFrom(s, i + 1)

Title(s) == TitleFrom(s, 1)

RECURSIVE JoinWords(_)
JoinWords(ws) ==
    IF ws = <<>> THEN ""
    ELSE IF Len(ws) = 1 THEN ws[1]
    ELSE ws[1] \o " " \o JoinWords(Tail(ws))

RECURSIVE StrToInt(_)
StrToInt(d) ==
    IF Len(d) = 0 THEN 0
    ELSE 10 * StrToInt(Slice(d, 1, Len(d) - 1)) + (IndexOf(Ch(d, Len(d)), Digits) - 1)

(***************************************************************************)
(* The messages of the model.  The functions of the message text alone are *)
(* tabulated over them once, under the names the source gives them.        *)
(***************************************************************************)
\* the messages a client sends in the conversation specification
Messages ==
    { "hi", "5", "hey use mainnet", " Go Back ", "undo",
      "I want to build a gaming chain", "deploy a defi exchange", "OrbitApp",
      "yes", "use my wallet", "use rollup on mainnet", "what is data availability" }

\* the wallet a client is connected with
Wallet == "0xAbCdEf0123AbCdEf0123AbCdEf0123AbCdEf0123"

\* the same wallet as a client sends it with a line end after it
WalletWithNewline == Wallet \o "\n"

\* a message that is 0x and 41 hex digits: one digit too many for an address
OverlongAddress == Wallet \o "4"

\* the messages a client sends in the service specification
ServiceMessages ==
    {"a cheaper gaming chain", "5", "twenty five", "use my wallet", OverlongAddress}

\* the answers a client gives to the data availability question
DataAvailabilityMessages == {"roll up", "a fast rollup", "hey use rollup"}

\* a chain name without a letter or a digit
Punctuation == "!!!"

Corpus == Messages \cup ServiceMessages \cup DataAvailabilityMessages \cup {Punctuation}

\* the wallet_address values of the requests
Wallets == {Wallet, WalletWithNewline}

(***************************************************************************)
(* utils/validators.py                                                     *)
(***************************************************************************)
ValueError == "<ValueError>"

\* re.match(r"^0x[a-fA-F0-9]{40}$", address); `$` also matches before a final newline
IsValidEthAddress(address) ==
    /\ address # None
    /\ address # ""
    /\ StartsWith(address, "0x")
    /\ RunEnd(address, 3, "hex") >= 42
    /\ \/ Len(address) = 42
       \/ Len(address) = 43 /\ Ch(address, 43) = "\n"

NormalizeEthAddress(address) ==
    LET a == IF StartsWith(address, "0x") THEN address ELSE "0x" \o address
    IN  IF address = None \/ address = "" \/ ~IsValidEthAddress(a) THEN ValueError ELSE Lower(a)

is_valid_eth_address == [a \in Wallets |-> IsValidEthAddress(a)]

normalize_eth_address == [a \in Wallets |-> NormalizeEthAddress(a)]

ValidateValidatorsCount(count) == 1 <= count /\ count <= 20

\* the maximal digit runs of text that \b(\d+)\b matches: a word boundary on both sides
BoundedDigitRuns(text) ==
    {i \in 1..Len(text) :
        /\ IsDigit(Ch(text, i))
        /\ (i = 1 \/ ~IsWordChar(Ch(text, i - 1)))
        /\ LET e == RunEnd(text, i, "digit")
           IN  e = Len(text) \/ ~IsWordChar(Ch(text, e + 1))}

Least(S) == CHOOSE i \in S : \A j \in S : i <= j

WordToNum == <<"one", "two", "three", "four", "five", "six", "seven", "eight", "nine", "ten">>

ParseValidatorCountFromText(msg) ==
    LET text == Lower(msg)
        runs == BoundedDigitRuns(text)
        first == Least(runs)
        count == StrToInt(Slice(text, first, RunEnd(text, first, "digit")))
        words == {n \in 1..Len(WordToNum) : Contains(WordToNum[n], text)}
    IN  IF runs # {} /\ ValidateValidatorsCount(count) THEN Some(count)
        ELSE IF words # {} THEN Some(Least(words))
        ELSE Nothing

parse_validator_count_from_text == [m \in Corpus |-> ParseValidatorCountFromText(m)]

\* the starts of the digit runs that (\d+)\s*<suffix> matches
RunsFollowedBy(text, suffix) ==
    {i \in 1..Len(text) :
        /\ IsDigit(Ch(text, i))
        /\ (i = 1 \/ ~IsDigit(Ch(text, i - 1)))
        /\ LET e == RunEnd(text, i, "digit")
               w == RunEnd(text, e + 1, "space")
           IN  Slice(text, w + 1, w + Len(suffix)) = suffix}

ParseBlockTimeFromText(msg) ==
    LET NumberAt(text, runs) ==
            IF runs = {} THEN 0
            ELSE StrToInt(Slice(text, Least(runs), RunEnd(text, Least(runs), "digit")))
        TimeOf(text, suffix) == NumberAt(text, RunsFollowedBy(text, suffix))
        Decide(text, t1, t2) ==
            IF 1 <= t1 /\ t1 <= 30 THEN Some(t1)
            ELSE IF 1 <= t2 /\ t2 <= 30 THEN Some(t2)
            ELSE IF Contains("fast", text) \/ Contains("quick", text) THEN Some(1)
            ELSE IF Contains("slow", text) THEN Some(3)
            ELSE Nothing
        Parse(text) == Decide(text, TimeOf(text, "s"), TimeOf(text, "second"))
    IN  Parse(Lower(msg))

parse_block_time_from_text == [m \in Corpus |-> ParseBlockTimeFromText(m)]

UseCaseKeywords ==
    << [use_case |-> "gaming", keywords |-> {"gaming", "game", "player", "esports", "nft game", "play to earn", "p2e"}],
       [use_case |-> "defi", keywords |-> {"defi", "finance", "trading", "exchange", "lending", "yield", "swap", "dex"}],
       [use_case |-> "enterprise", keywords |-> {"enterprise", "private", "business", "corporate", "internal"}],
       [use_case |-> "nft", keywords |-> {"nft", "collectible", "art", "marketplace", "token"}],
       [use_case |-> "general", keywords |-> {"general", "basic", "simple"}] >>

ParseUseCaseFromText(msg) ==
    LET text == Lower(msg)
        hits == {n \in 1..Len(UseCaseKeywords) : ContainsAny(UseCaseKeywords[n].keywords, text)}
    IN  IF hits = {} THEN Nothing ELSE Some(UseCaseKeywords[Least(hits)].use_case)

parse_use_case_from_text == [m \in Corpus |-> ParseUseCaseFromText(m)]

WalletPhrases ==
    {"my wallet", "connected wallet", "use my", "my address", "current wallet", "this wallet", "same wallet"}

ExtractWalletIntent(msg) == ContainsAny(WalletPhrases, Lower(msg))

extract_wallet_intent == [m \in Corpus |-> ExtractWalletIntent(m)]

(***************************************************************************)
(* extract_chain_name_from_text: the two regular expressions, matched      *)
(* with re.IGNORECASE as re.search matches them (leftmost start, greedy    *)
(* quantifiers, backtracking).                                             *)
(***************************************************************************)
\* (?:called|named|name\s+is|name:) at position p of the lower-cased text:
\* the index of its last character, 0 when no alternative matches there
NamingPhraseEnd(low, p) ==
    IF Slice(low, p, p + 5) = "called" THEN p + 5
    ELSE IF Slice(low, p, p + 4) = "named" THEN p + 4
    ELSE IF Slice(low, p, p + 4) = "name:" THEN p + 4
    ELSE IF Slice(low, p, p + 3) = "name"
         THEN LET w == RunEnd(low, p + 4, "space")
              IN  IF w >= p + 4 /\ Slice(low, w + 1, w + 2) = "is" THEN w + 2 ELSE 0
    ELSE 0

\* \s+["']?([a-zA-Z0-9\s]+)["']? after a naming phrase ending at q:
\* the group as <<first, last>>, <<>> when the rest does not match
NamingGroup(text, q) ==
    LET Start(k) ==
            IF k + 1 <= Len(text) /\ Ch(text, k + 1) \in {"\"", "'"} THEN k + 2 ELSE k + 1
        Group(k, start) ==
            IF k < q + 1 THEN <<>>
            ELSE IF start <= Len(text) /\ InClass("alnumspace", Ch(text, start))
                 THEN <<start, RunEnd(text, start, "alnumspace")>>
            \* \s+ gives back its last whitespace character, which the group takes
            ELSE IF k >= q + 2 THEN <<k, k>>
            ELSE <<>>
        After(k) == Group(k, Start(k))
    IN  After(RunEnd(text, q + 1, "space"))

NamedPattern(text) ==
    LET GroupAfter(q) == IF q = 0 THEN <<>> ELSE NamingGroup(text, q)
        MatchAt(low, p) == GroupAfter(NamingPhraseEnd(low, p))
        GroupText(g) == Slice(text, g[1], g[2])
        First(low, starts) ==
            IF starts = {} THEN Nothing ELSE Some(GroupText(MatchAt(low, Least(starts))))
        Search(low) == First(low, {p \in 1..Len(text) : MatchAt(low, p) # <<>>})
    IN  Search(Lower(text))

\* (?:\s+[A-Z][a-zA-Z0-9]+)* continuing after a word that ends at e
RECURSIVE TitleWordsEnd(_, _)
TitleWordsEnd(text, e) ==
    LET w == RunEnd(text, e + 1, "space")
        e2 == RunEnd(text, w + 2, "alnum")
    IN  IF w >= e + 1 /\ w + 1 <= Len(text) /\ IsAlpha(Ch(text, w + 1)) /\ e2 >= w + 2
        THEN TitleWordsEnd(text, e2)
        ELSE e

\* ^([A-Z][a-zA-Z0-9]+(?:\s+[A-Z][a-zA-Z0-9]+)*)
TitleCasePattern(text) ==
    LET e == RunEnd(text, 2, "alnum")
    IN  IF Len(text) >= 2 /\ IsAlpha(Ch(text, 1)) /\ e >= 2
        THEN Some(Slice(text, 1, TitleWordsEnd(text, e)))
        ELSE Nothing

ExtractChainNameFromText(text) ==
    LET NameOf(m) == IF m = Nothing THEN "" ELSE Strip(m[1])
        Decide(n1, n2) ==
            IF Len(n1) >= 2 /\ Len(n1) <= 50 THEN Some(n1)
            ELSE IF Len(n2) >= 2 /\ Len(n2) <= 50 THEN Some(n2)
            ELSE Nothing
    IN  Decide(NameOf(NamedPattern(text)), NameOf(TitleCasePattern(text)))

(***************************************************************************)
(* utils/defaults.py                                                       *)
(***************************************************************************)
USE_CASE_PRESETS ==
    [gaming |-> [id |-> "gaming",
                 defaults |-> [data_availability |-> "anytrust", block_time |-> 1,
                               gas_limit |-> 50000000, validators |-> 3,
                               challenge_period_days |-> 7]],
     defi |-> [id |-> "defi",
               defaults |-> [data_availability |-> "rollup", block_time |-> 2,
                             gas_limit |-> 30000000, validators |-> 5,
                             challenge_period_days |-> 7]],
     enterprise |-> [id |-> "enterprise",
                     defaults |-> [data_availability |-> "anytrust", block_time |-> 3,
                                   gas_limit |-> 30000000, validators |-> 5,
                                   challenge_period_days |-> 14]],
     nft |-> [id |-> "nft",
              defaults |-> [data_availability |-> "anytrust", block_time |-> 2,
                            gas_limit |-> 40000000, validators |-> 3,
                            challenge_period_days |-> 7]],
     general |-> [id |-> "general",
                  defaults |-> [data_availability |-> "anytrust", block_time |-> 2,
                                gas_limit |-> 30000000, validators |-> 3,
                                challenge_period_days |-> 7]]]

\* get_preset that ignores the use case
GetPresetGeneral(use_case) == USE_CASE_PRESETS["general"]

GetPreset(use_case) ==
    IF Lower(use_case) \in DOMAIN USE_CASE_PRESETS
    THEN USE_CASE_PRESETS[Lower(use_case)]
    ELSE USE_CASE_PRESETS["general"]

get_preset == [u \in {UseCaseKeywords[n].use_case : n \in 1..Len(UseCaseKeywords)} |-> GetPreset(u)]

EtherToken == [name |-> "Ether", symbol |-> "ETH", decimals |-> 18]

CustomToken == [name |-> "Custom", symbol |-> "TOKEN", decimals |-> 18]

(***************************************************************************)
(* models/conversation.py: the step order and the session.                 *)
(***************************************************************************)
CONFIG_STEP_ORDER ==
    << "use_case", "chain_name", "parent_chain", "data_availability", "validators",
       "owner_address", "native_token", "block_time", "gas_limit", "challenge_period",
       "complete" >>

COMPLETE == "complete"

StepIndex(step) == CHOOSE i \in 1..Len(CONFIG_STEP_ORDER) : CONFIG_STEP_ORDER[i] = step

\* a dict: a function whose domain is the set of keys present
EmptyDict == [k \in {} |-> None]

Put(d, key, value) == [k \in DOMAIN d \cup {key} |-> IF k = key THEN value ELSE d[k]]

Has(d, key) == key \in DOMAIN d

\* list.remove(x) on a list that holds x
RECURSIVE ListRemove(_, _)
ListRemove(list, x) ==
    IF list = <<>> THEN <<>>
    ELSE IF Head(list) = x THEN Tail(list)
    ELSE <<Head(list)>> \o ListRemove(Tail(list), x)

InList(x, list) == \E i \in 1..Len(list) : list[i] = x

\* ConversationSession(session_id, user_id, wallet_address) plus the greeting
\* that create_session appends; messages holds the role of each Message
NewSession(session_id, user_id, wallet_address) ==
    [session_id |-> session_id,
     user_id |-> user_id,
     wallet_address |-> wallet_address,
     phase |-> "greeting",
     current_step |-> "use_case",
     messages |-> <<"assistant">>,
     collected_params |-> EmptyDict,
     config |-> Nothing,
     deployment_id |-> None,
     deployment_status |-> None]

\* int((done / total) * 100) if total > 0 else 0.  The quotient and the product
\* are doubles; for the values taken here (0..10 of 10) the truncated product is
\* the integer quotient
Percentage(done, total) == IF total > 0 THEN (done * 100) \div total ELSE 0

\* get_progress that counts the complete marker among the steps
GetProgressOfEleven(session) ==
    LET current_idx == StepIndex(session.current_step)
        Done(step) == step # COMPLETE /\ StepIndex(step) < current_idx
        Left(step) == step # COMPLETE /\ ~(StepIndex(step) < current_idx)
        Report(completed, remaining) ==
            [completed |-> completed, remaining |-> remaining,
             percentage |-> Percentage(Len(completed), Len(CONFIG_STEP_ORDER))]
    IN  Report(SelectSeq(CONFIG_STEP_ORDER, Done), SelectSeq(CONFIG_STEP_ORDER, Left))

\* ConversationSession.get_progress
GetProgress(session) ==
    LET current_idx == StepIndex(session.current_step)
        Done(step) == step # COMPLETE /\ StepIndex(step) < current_idx
        Left(step) == step # COMPLETE /\ ~(StepIndex(step) < current_idx)
        Report(completed, remaining) ==
            [completed |-> completed, remaining |-> remaining,
             percentage |-> Percentage(Len(completed), Len(CONFIG_STEP_ORDER) - 1)]
    IN  Report(SelectSeq(CONFIG_STEP_ORDER, Done), SelectSeq(CONFIG_STEP_ORDER, Left))

\* advance_step that stops one step short of the end of the order
advance_step_stops_early(session) ==
    LET current_idx == StepIndex(session.current_step)
    IN  IF current_idx < Len(CONFIG_STEP_ORDER) - 1
        THEN [session EXCEPT !.current_step = CONFIG_STEP_ORDER[current_idx + 1]]
        ELSE session

advance_step(session) ==
    LET current_idx == StepIndex(session.current_step)
    IN  IF current_idx < Len(CONFIG_STEP_ORDER)
        THEN [session EXCEPT !.current_step = CONFIG_STEP_ORDER[current_idx + 1]]
        ELSE session

\* go_back_step that returns to the first step
go_back_step_restart(session) == [session EXCEPT !.current_step = CONFIG_STEP_ORDER[1]]

go_back_step(session) ==
    LET current_idx == StepIndex(session.current_step)
    IN  IF current_idx > 1
        THEN [session EXCEPT !.current_step = CONFIG_STEP_ORDER[current_idx - 1]]
        ELSE session

(***************************************************************************)
(* core/conversation.py: ConversationManager                               *)
(***************************************************************************)
\* message.lower().strip()
msg_lower_of == [m \in Corpus |-> Strip(Lower(m))]

CasualPatterns ==
    {"hi", "hello", "hey", "hola", "sup", "yo",
     "what's up", "whats up", "wassup",
     "good morning", "good afternoon", "good evening",
     "how are you", "how's it going", "how are things",
     "thanks", "thank you", "thx",
     "ok", "okay", "cool", "nice", "great", "awesome",
     "hmm", "um", "uh", "err",
     "help", "what", "huh", "?",
     "test", "testing", "asdf", "aaa", "bbb"}

GreetingStarters == {"hi ", "hey ", "hello ", "yo "}

IsCasualMessage(message) ==
    LET msg_lower == Strip(Lower(message))
    IN  \/ msg_lower \in CasualPatterns
        \/ Len(msg_lower) <= 2
        \/ \E g \in GreetingStarters : StartsWith(msg_lower, g)

is_casual_message == [m \in Corpus |-> IsCasualMessage(m)]

\* intent_signals, in the order the dict is iterated
IntentSignals ==
    << [step |-> "parent_chain",
        keywords |-> {"mainnet", "testnet", "sepolia", "arbitrum one", "arbitrum nova",
                      "production", "main net"}],
       [step |-> "data_availability",
        keywords |-> {"anytrust", "any trust", "rollup", "roll up", "roll-up",
                      "data availability", "full rollup", "full security",
                      "ethereum da", "dac committee"}],
       [step |-> "validators", keywords |-> {"validator"}],
       [step |-> "owner_address",
        keywords |-> {"0x", "my wallet", "connected wallet", "my address"}],
       [step |-> "native_token",
        keywords |-> {"custom token", "native token", "gas token"}] >>

\* the steps whose signal the message carries, as indexes of IntentSignals
SignalledSteps(message) ==
    LET msg_lower == Strip(Lower(message))
    IN  {n \in 1..Len(IntentSignals) : ContainsAny(IntentSignals[n].keywords, msg_lower)}

signalled_steps == [m \in Corpus |-> SignalledSteps(m)]

DetectIntentStep(session, message) ==
    LET First(hits) == IF hits = {} THEN None ELSE IntentSignals[Least(hits)].step
    IN  IF is_casual_message[message] THEN None
        ELSE First({n \in signalled_steps[message] :
                        IntentSignals[n].step # session.current_step})

\* dict.get("_preset", {}).get("defaults", {}).get(field, fallback)
PresetDefault(params, field, fallback) ==
    IF Has(params, "_preset") THEN params["_preset"].defaults[field] ELSE fallback

\* default_mapping of the use_case branch, in insertion order
DefaultMapping(preset) ==
    << <<"data_availability", preset.defaults.data_availability>>,
       <<"block_time", preset.defaults.block_time>>,
       <<"gas_limit", preset.defaults.gas_limit>>,
       <<"validators", preset.defaults.validators>>,
       <<"challenge_period", preset.defaults.challenge_period_days>>,
       <<"native_token", EtherToken>>,
       <<"parent_chain", "arbitrum-sepolia">> >>

\* for key, value in default_mapping.items(): fill the keys that are absent
RECURSIVE FillDefaults(_, _)
FillDefaults(params, mapping) ==
    IF mapping = <<>> THEN params
    ELSE LET key == Head(mapping)[1]
             value == Head(mapping)[2]
         IN  FillDefaults(IF Has(params, key) THEN params ELSE Put(params, key, value),
                          Tail(mapping))

MappingKeys(mapping) == [i \in 1..Len(mapping) |-> mapping[i][1]]

\* the pre-fill of the use_case branch: _preset, the absent keys, _defaults
PropagateDefaults(params, use_case) ==
    LET Fill(preset, mapping) ==
            Put(FillDefaults(Put(params, "_preset", preset), mapping),
                "_defaults", MappingKeys(mapping))
        Propagate(preset) == Fill(preset, DefaultMapping(preset))
    IN  Propagate(get_preset[use_case])

UseCaseGenericKeywords == {"app", "chain", "project", "build", "create", "making", "platform"}

ConfigKeywords ==
    {"mainnet", "testnet", "sepolia", "nova", "arbitrum",
     "rollup", "anytrust", "trust",
     "validator", "eth", "ether", "custom token",
     "wallet", "address", "0x",
     "second", "fast", "slow",
     "million", "gas",
     "days", "week", "challenge",
     "production", "deploy"}

SkipWords == {"the", "a", "an", "is", "be", "it"}

Affirmations == {"yes", "yeah", "ok", "sure", "sounds good", "yep"}

DAAffirmations == Affirmations \cup {"that's fine", "works for me"}

ExtractChainName(message) ==
    LET Decide(msg_lower, name, words, name_parts) ==
            IF ContainsAny(ConfigKeywords, msg_lower) THEN Nothing
            ELSE IF name # Nothing
                 THEN IF ContainsAny(ConfigKeywords, Lower(name[1])) THEN Nothing ELSE name
            ELSE IF Len(words) = 1 /\ Len(message) >= 3 /\ Len(message) <= 50
                 THEN Some(Strip(message))
            ELSE IF Len(message) <= 50 /\ Len(message) >= 3 /\ name_parts # <<>>
                 THEN Some(Title(JoinWords(name_parts)))
            ELSE Nothing
        WithWords(msg_lower, words) ==
            Decide(msg_lower, ExtractChainNameFromText(message), words,
                   SelectSeq(words, LAMBDA w : w \notin SkipWords))
        WithLower(msg_lower) == WithWords(msg_lower, Split(msg_lower))
    IN  WithLower(Strip(Lower(message)))

extract_chain_name == [m \in Corpus |-> ExtractChainName(m)]

\* an affirmation taken as a choice of the mainnet
ExtractParentChainMainnet(message) ==
    LET msg_lower == Strip(Lower(message))
    IN  IF Contains("sepolia", msg_lower) \/ Contains("test", msg_lower) THEN "arbitrum-sepolia"
        ELSE IF Contains("one", msg_lower) \/ Contains("main", msg_lower)
                \/ Contains("production", msg_lower) THEN "arbitrum-one"
        ELSE IF Contains("nova", msg_lower) THEN "arbitrum-nova"
        ELSE IF msg_lower \in Affirmations THEN "arbitrum-one"
        ELSE "arbitrum-sepolia"

ExtractParentChain(message) ==
    LET msg_lower == Strip(Lower(message))
    IN  IF Contains("sepolia", msg_lower) \/ Contains("test", msg_lower) THEN "arbitrum-sepolia"
        ELSE IF Contains("one", msg_lower) \/ Contains("main", msg_lower)
                \/ Contains("production", msg_lower) THEN "arbitrum-one"
        ELSE IF Contains("nova", msg_lower) THEN "arbitrum-nova"
        ELSE IF msg_lower \in Affirmations THEN "arbitrum-sepolia"
        ELSE "arbitrum-sepolia"

extract_parent_chain == [m \in Corpus |-> ExtractParentChain(m)]

RollupPatterns == {"rollup", "roll up", "roll-up", "ethereum da", "full rollup", "full security"}

AnytrustPatterns == {"anytrust", "any trust", "any-trust", "cheaper", "fast", "dac"}

\* lines 372-379: the rollup patterns are tried before the anytrust patterns
DataAvailabilityPattern(message) ==
    LET msg_lower == Strip(Lower(message))
    IN  IF ContainsAny(RollupPatterns, msg_lower) THEN Some("rollup")
        ELSE IF ContainsAny(AnytrustPatterns, msg_lower) THEN Some("anytrust")
        ELSE Nothing

data_availability_pattern == [m \in Corpus |-> DataAvailabilityPattern(m)]

ExtractDataAvailability(session, message) ==
    LET Decide(named) ==
            IF named # Nothing THEN named
            ELSE IF msg_lower_of[message] \in DAAffirmations
                 THEN Some(PresetDefault(session.collected_params, "data_availability", "anytrust"))
            ELSE Nothing
    IN  Decide(data_availability_pattern[message])

\* re.search(r"0x[a-fA-F0-9]{40}", message): the starts of the matches
AddressStarts(message) ==
    {i \in 1..Len(message) :
        Slice(message, i, i + 1) = "0x" /\ RunEnd(message, i + 2, "hex") >= i + 41}

\* match.group() of the leftmost match
\* lines 404-406: the leftmost match, normalized
AddressInMessage(message) ==
    LET First(starts) ==
            IF starts = {} THEN Nothing
            ELSE Some(NormalizeEthAddress(Slice(message, Least(starts), Least(starts) + 41)))
    IN  First(AddressStarts(message))

address_in_message == [m \in Corpus |-> AddressInMessage(m)]

ExtractOwnerAddress(session, message) ==
    IF extract_wallet_intent[message]
    THEN IF session.wallet_address # None /\ session.wallet_address # ""
            /\ is_valid_eth_address[session.wallet_address]
         THEN Some(normalize_eth_address[session.wallet_address])
         ELSE Nothing
    ELSE address_in_message[message]

\* re.findall(r"\b(\d{7,9})\b", message)
GasNumbers(message) ==
    {i \in BoundedDigitRuns(message) :
        LET n == RunEnd(message, i, "digit") - i + 1 IN n >= 7 /\ n <= 9}

\* lines 426-432: the gas limit the message names, if it names one
GasLimitInText(message) ==
    LET Decide(msg_lower, numbers) ==
            IF numbers # {}
            THEN Some(StrToInt(Slice(message, Least(numbers),
                                     RunEnd(message, Least(numbers), "digit"))))
            ELSE IF Contains("30", msg_lower) \/ Contains("standard", msg_lower)
                 THEN Some(30000000)
            ELSE IF Contains("50", msg_lower) \/ Contains("high", msg_lower)
                 THEN Some(50000000)
            ELSE Nothing
    IN  Decide(Strip(Lower(message)), GasNumbers(message))

gas_limit_in_text == [m \in Corpus |-> GasLimitInText(m)]

ExtractGasLimit(session, message) ==
    LET Decide(named) ==
            IF named # Nothing THEN named[1]
            ELSE PresetDefault(session.collected_params, "gas_limit", 30000000)
    IN  Decide(gas_limit_in_text[message])

\* lines 312-313
HasUseCaseKeyword(message) == ContainsAny(UseCaseGenericKeywords, Strip(Lower(message)))

has_use_case_keyword == [m \in Corpus |-> HasUseCaseKeyword(m)]

\* lines 410-413
ExtractNativeToken(message) ==
    IF Contains("custom", Strip(Lower(message))) THEN CustomToken ELSE EtherToken

extract_native_token == [m \in Corpus |-> ExtractNativeToken(m)]

\* lines 438-440
ExtractChallengePeriod(message) ==
    LET msg_lower == Strip(Lower(message))
    IN  IF Contains("14", msg_lower) \/ Contains("two week", msg_lower) THEN 14 ELSE 7

extract_challenge_period == [m \in Corpus |-> ExtractChallengePeriod(m)]

\* _extract_value after the casual check (lines 287-442): the value extracted for
\* session.current_step (<<>> is None) and collected_params as the call leaves it
ExtractForStep(session, message) ==
    LET step == session.current_step
        params == session.collected_params
        Keep(value) == [value |-> value, params |-> params]
        UseCase(use_case) ==
            IF use_case # Nothing
            THEN [value |-> use_case, params |-> PropagateDefaults(params, use_case[1])]
            ELSE IF has_use_case_keyword[message] THEN Keep(Some("general"))
            ELSE Keep(Nothing)
        OrDefault(named, field, fallback) ==
            IF named # Nothing THEN Keep(named)
            ELSE Keep(Some(PresetDefault(params, field, fallback)))
    IN  CASE step = "use_case" -> UseCase(parse_use_case_from_text[message])
           [] step = "chain_name" -> Keep(extract_chain_name[message])
           [] step = "parent_chain" -> Keep(Some(extract_parent_chain[message]))
           [] step = "data_availability" -> Keep(ExtractDataAvailability(session, message))
           [] step = "validators" ->
                OrDefault(parse_validator_count_from_text[message], "validators", 3)
           [] step = "owner_address" -> Keep(ExtractOwnerAddress(session, message))
           [] step = "native_token" -> Keep(Some(extract_native_token[message]))
           [] step = "block_time" ->
                OrDefault(parse_block_time_from_text[message], "block_time", 2)
           [] step = "gas_limit" -> Keep(Some(ExtractGasLimit(session, message)))
           [] step = "challenge_period" -> Keep(Some(extract_challenge_period[message]))
           [] OTHER -> Keep(Nothing)

\* _extract_value without its casual check
ExtractValueCasualUnchecked(session, message) == ExtractForStep(session, message)

\* _extract_value
ExtractValue(session, message) ==
    IF is_casual_message[message]
    THEN [value |-> Nothing, params |-> session.collected_params]
    ELSE ExtractForStep(session, message)

(***************************************************************************)
(* utils/defaults.py generate_validators, models/orbit_config.py and       *)
(* core/config_builder.py.                                                 *)
(***************************************************************************)
\* str(n) for n >= 0
RECURSIVE IntToStr(_)
IntToStr(n) ==
    IF n < 10 THEN Ch(Digits, n + 1) ELSE IntToStr(n \div 10) \o Ch(Digits, (n % 10) + 1)

\* hex(n)[2:] for n >= 0
RECURSIVE HexOf(_)
HexOf(n) ==
    IF n < 16 THEN Ch("0123456789abcdef", n + 1)
    ELSE HexOf(n \div 16) \o Ch("0123456789abcdef", (n % 16) + 1)

\* s * n
RECURSIVE Repeat(_, _)
Repeat(s, n) == IF n = 0 THEN "" ELSE s \o Repeat(s, n - 1)

\* s.replace(a, b) for single characters a and b
RECURSIVE ReplaceFrom(_, _, _, _)
ReplaceFrom(s, i, a, b) ==
    IF i > Len(s) THEN ""
    ELSE (IF Ch(s, i) = a THEN b ELSE Ch(s, i)) \o ReplaceFrom(s, i + 1, a, b)

GenerateValidators(count) ==
    [k \in 1..count |-> Slice("0x" \o Repeat(HexOf(k), 40), 1, 42)]

generate_validators == [count \in 0..20 |-> GenerateValidators(count)]

ZeroAddress == "0x0000000000000000000000000000000000000000"

\* the addresses a configuration is built from
Addresses ==
    Wallets \cup {Lower(Wallet), Lower(WalletWithNewline), ZeroAddress}
        \cup {generate_validators[20][k] : k \in 1..20}

\* OrbitConfig.validate_address and validate_validators: the lower-cased address,
\* or ValueError
validate_address ==
    [a \in Addresses |-> IF IsValidEthAddress(a) THEN Lower(a) ELSE ValueError]

\* OrbitConfig.validate_name raises when no alphanumeric character is left
NameIsValid(name) == \E i \in 1..Len(name) : IsAlnum(Ch(name, i))

\* generate_chain_id(): random; the values the model draws
ChainIds == {412000, 499999}

\* re.sub(r"[^a-zA-Z0-9\s-]", "", v)
RECURSIVE CleanNameFrom(_, _)
CleanNameFrom(v, i) ==
    IF i > Len(v) THEN ""
    ELSE (IF IsAlnum(Ch(v, i)) \/ IsSpace(Ch(v, i)) \/ Ch(v, i) = "-" THEN Ch(v, i) ELSE "")
             \o CleanNameFrom(v, i + 1)

\* re.sub(r"\s+", "-", clean)
RECURSIVE HyphenateFrom(_, _)
HyphenateFrom(clean, i) ==
    IF i > Len(clean) THEN ""
    ELSE (IF ~IsSpace(Ch(clean, i)) THEN Ch(clean, i)
          ELSE IF i > 1 /\ IsSpace(Ch(clean, i - 1)) THEN "" ELSE "-")
             \o HyphenateFrom(clean, i + 1)

\* str.strip("-")
StripHyphens(s) ==
    LET kept == {i \in 1..Len(s) : Ch(s, i) # "-"}
    IN  IF kept = {} THEN ""
        ELSE Slice(s, CHOOSE i \in kept : \A j \in kept : i <= j,
                      CHOOSE i \in kept : \A j \in kept : j <= i)

\* OrbitConfig.validate_name: the URL-friendly name, or ValueError
ValidateName(v) ==
    LET Checked(clean) == IF clean = "" THEN ValueError ELSE clean
    IN  Checked(StripHyphens(Lower(HyphenateFrom(CleanNameFrom(v, 1), 1))))

\* utils/defaults.py generate_sequencer_url
GenerateSequencerUrl(chain_name) ==
    "https://sequencer-"
        \o ReplaceFrom(ReplaceFrom(Lower(chain_name), 1, " ", "-"), 1, "_", "-")
        \o ".example.com"

\* build_from_session(session): None, or the OrbitConfig; name_id and chain_id are
\* the two draws of generate_chain_id()
Assemble(session, name_id, chain_id) ==
    LET params == session.collected_params
        Get(key, fallback) == IF Has(params, key) THEN params[key] ELSE fallback
        Owner(slot) ==
            IF slot # None /\ slot # "" THEN slot
            ELSE IF session.wallet_address # None /\ session.wallet_address # ""
                 THEN session.wallet_address
            ELSE ZeroAddress
        Config(use_case, defaults, chain_name, name, owner, validators) ==
            IF owner = ValueError \/ Len(validators) < 1 \/ name = ValueError
            THEN Nothing
            ELSE Some([name |-> name,
                       chain_id |-> chain_id,
                       parent_chain |-> Get("parent_chain", "arbitrum-sepolia"),
                       owner_address |-> owner,
                       validators |-> validators,
                       data_availability |->
                           Get("data_availability", defaults.data_availability),
                       chain_config |->
                           [chain_name |-> Title(ReplaceFrom(chain_name, 1, "-", " ")),
                            native_token |-> Get("native_token", EtherToken),
                            sequencer_url |-> GenerateSequencerUrl(chain_name),
                            block_time |-> Get("block_time", defaults.block_time),
                            gas_limit |-> Get("gas_limit", defaults.gas_limit),
                            challenge_period_days |->
                                Get("challenge_period", defaults.challenge_period_days)],
                       use_case |-> use_case])
        Validated(list) == [k \in 1..Len(list) |-> validate_address[list[k]]]
        Named(use_case, defaults, chain_name) ==
            Config(use_case, defaults, chain_name,
                   ValidateName(ReplaceFrom(Lower(chain_name), 1, " ", "-")),
                   validate_address[Owner(Get("owner_address", None))],
                   Validated(generate_validators[Get("validators", defaults.validators)]))
        WithPreset(use_case) ==
            Named(use_case, get_preset[use_case].defaults,
                  Get("chain_name", "orbit-chain-" \o IntToStr(name_id)))
    IN  IF DOMAIN params = {} THEN Nothing ELSE WithPreset(Get("use_case", "general"))

\* OrbitConfig.to_backend_format
ToBackendFormat(config) ==
    [name |-> config.chain_config.chain_name,
     chainId |-> config.chain_id,
     parentChain |-> config.parent_chain,
     description |-> "L3 chain for " \o config.use_case \o " use case",
     ownerAddress |-> config.owner_address,
     sequencerAddress |-> config.owner_address,
     batchPosterAddress |-> config.owner_address,
     validators |-> config.validators,
     dataAvailability |-> config.data_availability,
     challengePeriod |-> config.chain_config.challenge_period_days * 86400,
     l2GasPrice |-> "0.1",
     l1GasPrice |-> "10",
     nativeToken |-> config.chain_config.native_token,
     blockTime |-> config.chain_config.block_time,
     gasLimit |-> config.chain_config.gas_limit]

\* build_from_session(session) followed by to_backend_format(): None, or the
\* config dict; name_id and chain_id are the two draws of generate_chain_id()
BuildWith(session, name_id, chain_id) ==
    LET Format(config) == IF config = Nothing THEN Nothing ELSE Some(ToBackendFormat(config[1]))
    IN  Format(Assemble(session, name_id, chain_id))

\* validate_config with the gas limit check left out
ValidateConfigNoGas(config) ==
    LET If(violated, error) == IF violated THEN <<error>> ELSE <<>>
        Answer(errors) == [ok |-> Len(errors) = 0, errors |-> errors]
    IN  Answer(If(config.name = "", "Chain name is required")
               \o If(config.owner_address \in {None, "", ZeroAddress},
                      "Valid owner address is required")
               \o If(Len(config.validators) < 1, "At least 1 validator is required")
               \o If(config.chain_config.block_time < 1 \/ config.chain_config.block_time > 30,
                      "Block time must be between 1-30 seconds"))

\* validate_config(config): (is_valid, errors)
ValidateConfig(config) ==
    LET If(violated, error) == IF violated THEN <<error>> ELSE <<>>
        Answer(errors) == [ok |-> Len(errors) = 0, errors |-> errors]
    IN  Answer(If(config.name = "", "Chain name is required")
               \o If(config.owner_address \in {None, "", ZeroAddress},
                      "Valid owner address is required")
               \o If(Len(config.validators) < 1, "At least 1 validator is required")
               \o If(config.chain_config.block_time < 1 \/ config.chain_config.block_time > 30,
                      "Block time must be between 1-30 seconds")
               \o If(config.chain_config.gas_limit < 1000000, "Gas limit too low"))

\* the configs build_from_session(session) can return, over the draws
BuildFromSession(session) ==
    {BuildWith(session, name_id, chain_id) : name_id \in ChainIds, chain_id \in ChainIds}

(***************************************************************************)
(* The state: the ConversationManager singleton and the clock.             *)
(***************************************************************************)
VARIABLES
    sessions,            \* ConversationManager.sessions: session id -> session
    session_timestamps,  \* ConversationManager.session_timestamps: <<session id, last touch>>
    now,                 \* time.time()
    lastOp,              \* history: the request handled last and what it decided
    answered,            \* history: session id -> the slots an answer of the user was written to
    awaiting,            \* the turns suspended at the await of generate_response, as they arrived
    serial               \* history: session id -> the session of a manager that takes the
                         \* same turns one after the other

vars == <<sessions, session_timestamps, now, lastOp, answered, awaiting, serial>>

\* ConversationManager.ttl_seconds, in ticks of the clock
ttl_seconds == 2

\* session_timestamps is a dict, iterated in insertion order: a sequence of <<id, time>>
TsKeys(timestamps) == {timestamps[i][1] : i \in 1..Len(timestamps)}

\* session_timestamps[session_id] = t: an existing key keeps its place
TsPut(timestamps, session_id, t) ==
    IF session_id \in TsKeys(timestamps)
    THEN [i \in 1..Len(timestamps) |->
              IF timestamps[i][1] = session_id THEN <<session_id, t>> ELSE timestamps[i]]
    ELSE Append(timestamps, <<session_id, t>>)

\* del d[session_id]
DictDel(d, session_id) == [sid \in DOMAIN d \ {session_id} |-> d[sid]]

\* the loop of _cleanup_expired over the expired ids: del self.sessions[sid] raises
\* KeyError, and ends the loop, at an id that sessions does not hold
RECURSIVE Sweep(_, _)
Sweep(store, expired) ==
    IF expired = <<>>
    THEN [sessions |-> store.sessions, session_timestamps |-> store.session_timestamps,
          raised |-> FALSE]
    ELSE IF Head(expired)[1] \notin DOMAIN store.sessions
    THEN [sessions |-> store.sessions, session_timestamps |-> store.session_timestamps,
          raised |-> TRUE]
    ELSE Sweep([sessions |-> DictDel(store.sessions, Head(expired)[1]),
                session_timestamps |->
                    SelectSeq(store.session_timestamps,
                              LAMBDA e : e[1] # Head(expired)[1])],
               Tail(expired))

\* a sweep that takes a session idle for exactly the TTL as expired
CleanupExpiredAtTtl(store, t) ==
    Sweep(store, SelectSeq(store.session_timestamps, LAMBDA e : t - e[2] >= ttl_seconds))

\* _cleanup_expired at time t
CleanupExpired(store, t) ==
    Sweep(store, SelectSeq(store.session_timestamps, LAMBDA e : t - e[2] > ttl_seconds))

\* get_session: the store after the sweep and the touch, whether the id was found,
\* and whether the sweep raised
GetSession(store, session_id, t) ==
    LET Fetch(swept) ==
            IF ~swept.raised /\ session_id \in DOMAIN swept.sessions
            THEN [sessions |-> swept.sessions,
                  session_timestamps |-> TsPut(swept.session_timestamps, session_id, t),
                  found |-> TRUE, raised |-> FALSE]
            ELSE [sessions |-> swept.sessions,
                  session_timestamps |-> swept.session_timestamps,
                  found |-> FALSE, raised |-> swept.raised]
    IN  Fetch(CleanupExpired(store, t))

\* create_session with a given id: the existing session, or a new one with the greeting
CreateSession(store, session_id, user_id, wallet_address, t) ==
    LET Create(swept) ==
            IF swept.raised \/ session_id \in DOMAIN swept.sessions
            THEN swept
            ELSE [sessions |-> Put(swept.sessions, session_id,
                                   NewSession(session_id, user_id, wallet_address)),
                  session_timestamps |-> TsPut(swept.session_timestamps, session_id, t),
                  raised |-> FALSE]
    IN  Create(CleanupExpired(store, t))

\* reset_session: the old session leaves sessions, not session_timestamps, before
\* create_session runs
ResetSession(store, session_id, t) ==
    IF session_id \in DOMAIN store.sessions
    THEN CreateSession([sessions |-> DictDel(store.sessions, session_id),
                        session_timestamps |-> store.session_timestamps],
                       session_id, store.sessions[session_id].user_id,
                       store.sessions[session_id].wallet_address, t)
    ELSE CreateSession(store, session_id, None, None, t)

GoBackCommands == {"go back", "back", "previous", "undo"}

\* lines 153-156 and 167-171 left out: the flag of the key stays
ConfirmParamKeepsFlag(params, key) == params

\* lines 153-156 and 167-171 emptying the list
ConfirmParamClearsAll(params, key) ==
    LET defaults_list == IF Has(params, "_defaults") THEN params["_defaults"] ELSE <<>>
    IN  IF InList(key, defaults_list)
        THEN Put(params, "_defaults", <<>>)
        ELSE params

\* _defaults without key, as lines 153-156 and 167-171 leave collected_params
ConfirmParam(params, key) ==
    LET defaults_list == IF Has(params, "_defaults") THEN params["_defaults"] ELSE <<>>
    IN  IF InList(key, defaults_list)
        THEN Put(params, "_defaults", ListRemove(defaults_list, key))
        ELSE params

\* a turn that ends without an assistant message
ReplyOmitted(session) == session

\* the assistant message that ends a turn (lines 131-135, 197-201)
Reply(session) == [session EXCEPT !.messages = Append(@, "assistant")]

\* lines 149-156, 163-171: the value under key, and key no longer flagged as a default
Written(ex, key) == ConfirmParam(Put(ex.params, key, ex.value[1]), key)

\* the normal flow without the transition of the phase at complete
NormalFlowOfNoReview(s2, ex) ==
    [session |-> IF ex.value # Nothing
                 THEN advance_step([s2 EXCEPT !.collected_params = Written(ex, s2.current_step)])
                 ELSE [s2 EXCEPT !.collected_params = ex.params],
     extracted |-> ex.value # Nothing]

\* lines 161-177 once _extract_value has returned ex
NormalFlowOf(s2, ex) ==
    LET EnterReview(s3) ==
            IF s3.current_step = COMPLETE THEN [s3 EXCEPT !.phase = "review"] ELSE s3
    IN  [session |-> IF ex.value # Nothing
                     THEN EnterReview(advance_step(
                              [s2 EXCEPT !.collected_params = Written(ex, s2.current_step)]))
                     ELSE [s2 EXCEPT !.collected_params = ex.params],
         extracted |-> ex.value # Nothing]

\* lines 161-177: extract for the current step, advance, enter review at the end
NormalFlow(s2, user_message) == NormalFlowOf(s2, ExtractValue(s2, user_message))

\* lines 147-158 once _extract_value has returned ex for the detected step
CrossFlowOf(s2, ex, target_step) ==
    [session |-> [s2 EXCEPT !.collected_params = IF ex.value # Nothing
                                                 THEN Written(ex, target_step)
                                                 ELSE ex.params],
     extracted |-> ex.value # Nothing]

\* lines 147-158 followed, when nothing was extracted, by the normal flow
CrossFlowFallsBack(s2, user_message, target_step) ==
    LET Flow(ex) == IF ex.value # Nothing THEN CrossFlowOf(s2, ex, target_step)
                    ELSE NormalFlow(s2, user_message)
    IN  Flow(ExtractValue([s2 EXCEPT !.current_step = target_step], user_message))

\* lines 147-158 with the cursor left on the detected step
CrossFlowNoRestore(s2, user_message, target_step) ==
    CrossFlowOf([s2 EXCEPT !.current_step = target_step],
                ExtractValue([s2 EXCEPT !.current_step = target_step], user_message),
                target_step)

\* lines 147-158: extract for the detected step, then restore the cursor
CrossFlow(s2, user_message, target_step) ==
    CrossFlowOf(s2, ExtractValue([s2 EXCEPT !.current_step = target_step], user_message),
                target_step)

\* lines 121-177 for the session with the user message appended
Dispatch(s2, user_message, target_step) ==
    LET Turn(flow, cross) ==
            [session |-> Reply(flow.session), kind |-> "turn",
             target |-> IF cross THEN target_step ELSE None,
             cross |-> cross, extracted |-> flow.extracted]
    IN  IF msg_lower_of[user_message] \in GoBackCommands
        THEN [session |-> Reply(go_back_step(s2)), kind |-> "go_back",
              target |-> None, cross |-> FALSE, extracted |-> FALSE]
        ELSE IF target_step # None /\ target_step # s2.current_step
        THEN Turn(CrossFlow(s2, user_message, target_step), TRUE)
        ELSE Turn(NormalFlow(s2, user_message), FALSE)

\* process_message from the wallet update on, for the session found or created:
\* the session as the turn leaves it and what the turn decided
ProcessTurn(session0, user_message, wallet_address) ==
    LET WithWallet(session) ==
            IF wallet_address # None /\ wallet_address # ""
            THEN [session EXCEPT !.wallet_address = wallet_address]
            ELSE session
        WithUserMessage(session) == [session EXCEPT !.messages = Append(@, "user")]
        Handle(s2) == Dispatch(s2, user_message, DetectIntentStep(s2, user_message))
    IN  Handle(WithUserMessage(WithWallet(session0)))

\* what a request that takes no turn leaves in lastOp; calls lists the requests
\* it sent to the deployment service
Handled(kind, session_id, outcome, calls) ==
    [kind |-> kind, sid |-> session_id, msg |-> "", wallet |-> None, found |-> FALSE,
     step |-> None, target |-> None, cross |-> FALSE, extracted |-> FALSE,
     was_default |-> FALSE, outcome |-> outcome, calls |-> calls, reply |-> None,
     engine |-> [groq |-> None, gemini |-> None]]

\* the manager's two dicts
Store == [sessions |-> sessions, session_timestamps |-> session_timestamps]

\* what a turn leaves in lastOp: the request and what process_message decided
TurnOp(session_id, user_message, wallet_address, found, session, turn) ==
    LET slot == IF turn.cross THEN turn.target ELSE session.current_step
    IN  [kind |-> turn.kind, sid |-> session_id, msg |-> user_message,
         wallet |-> wallet_address,
         found |-> found, step |-> session.current_step,
         target |-> turn.target, cross |-> turn.cross,
         extracted |-> turn.extracted,
         was_default |-> /\ Has(session.collected_params, "_defaults")
                         /\ InList(slot, session.collected_params["_defaults"]),
         outcome |-> "ok", calls |-> <<>>, reply |-> None,
         engine |-> [groq |-> None, gemini |-> None]]

\* the slots of the session that hold an answer of the user after the turn
TurnAnswered(session_id, found, session, turn) ==
    LET before == IF found THEN answered[session_id] ELSE {}
        slot == IF turn.cross THEN turn.target ELSE session.current_step
    IN  Put(answered, session_id, IF turn.extracted THEN before \cup {slot} ELSE before)

\* process_message(session_id, user_message, wallet_address)
ProcessMessage(session_id, user_message, wallet_address) ==
    \E got \in {GetSession(Store, session_id, now)} :
    \E made \in {IF got.found \/ got.raised THEN got
                  ELSE CreateSession(got, session_id, None, wallet_address, now)} :
        IF made.raised
        THEN /\ sessions' = made.sessions
             /\ session_timestamps' = made.session_timestamps
             /\ now' = now
             /\ lastOp' = Handled("chat", session_id, "KeyError", <<>>)
             /\ UNCHANGED <<awaiting, serial>>
             /\ answered' = answered
        ELSE
    \E turn \in {ProcessTurn(made.sessions[session_id], user_message, wallet_address)} :
        /\ Len(made.sessions[session_id].messages) < 1 + 2 * MaxTurns
        /\ sessions' = Put(made.sessions, session_id, turn.session)
        /\ session_timestamps' = made.session_timestamps
        /\ now' = now
        /\ lastOp' = TurnOp(session_id, user_message, wallet_address, got.found,
                            made.sessions[session_id], turn)
        /\ UNCHANGED <<awaiting, serial>>
        /\ answered' = TurnAnswered(session_id, got.found, made.sessions[session_id], turn)

\* STEP_QUESTIONS: the placeholders of the question of each step that has one
STEP_QUESTIONS ==
    [use_case |-> {}, chain_name |-> {}, parent_chain |-> {},
     data_availability |-> {"recommended"}, validators |-> {}, owner_address |-> {},
     native_token |-> {}, block_time |-> {"use_case", "recommended"},
     gas_limit |-> {"recommended"}, challenge_period |-> {},
     review |-> {"chain_name", "config_summary"}]

\* get_step_question(step, context): the question of the step, formatted with the
\* context when the context holds every placeholder and left as the template
\* otherwise (KeyError, line 135); the stock sentence for a step without question
GetStepQuestion(step, context) ==
    IF step \in DOMAIN STEP_QUESTIONS
    THEN [question |-> step,
          formatted |-> STEP_QUESTIONS[step] \subseteq DOMAIN context]
    ELSE [question |-> "Let's continue with the next step.", formatted |-> TRUE]

\* what a provider does with a call: no client is configured, it returns a text,
\* it returns no text, it raises
ProviderOutcomes == {"absent", "text", "empty", "error"}

Engines == [groq : ProviderOutcomes, gemini : ProviderOutcomes]

\* the reply is not recorded
Unrecorded == [groq |-> None, gemini |-> None]

\* a fallback that asks the first question again
GenerateResponseGreeting(session, engine) ==
    IF engine.groq = "text" THEN [question |-> "<groq>", formatted |-> TRUE]
    ELSE IF engine.gemini = "text" THEN [question |-> "<gemini>", formatted |-> TRUE]
    ELSE GetStepQuestion("use_case", session.collected_params)

\* generate_response: the text of Groq, else the text of Gemini, else the question
\* of the current step
GenerateResponse(session, engine) ==
    IF engine.groq = "text" THEN [question |-> "<groq>", formatted |-> TRUE]
    ELSE IF engine.gemini = "text" THEN [question |-> "<gemini>", formatted |-> TRUE]
    ELSE GetStepQuestion(session.current_step, session.collected_params)

\* the content of the assistant message of a turn: lines 126-129 for a go-back
\* command, where before is the session the command found, lines 188-194 otherwise
ReplyOf(before, turn, engine) ==
    IF engine = Unrecorded THEN None
    ELSE IF turn.kind = "go_back"
    THEN IF turn.session.current_step # before.current_step
         THEN [go_back |-> TRUE,
               question |-> GetStepQuestion(turn.session.current_step,
                                            turn.session.collected_params)]
         ELSE [go_back |-> FALSE, question |-> None]
    ELSE GenerateResponse(turn.session, engine)

\* lines 100-107 of chat: in the review phase the configuration is built again and,
\* when one is built, kept in session.config; the sessions this can leave
WithConfig(session) ==
    LET Keep(built) == IF built = Nothing THEN session
                       ELSE [session EXCEPT !.config = built]
    IN  IF session.phase \in {"review", "deployed"}
        THEN {Keep(built) : built \in BuildFromSession(session)}
        ELSE {session}

\* POST /api/orbit-ai/chat, with what the providers do during the turn
ChatWith(session_id, user_message, wallet_address, engine) ==
    \E got \in {GetSession(Store, session_id, now)} :
    \E made \in {IF got.found \/ got.raised THEN got
                  ELSE CreateSession(got, session_id, None, wallet_address, now)} :
        IF made.raised
        THEN /\ sessions' = made.sessions
             /\ session_timestamps' = made.session_timestamps
             /\ now' = now
             /\ lastOp' = Handled("chat", session_id, "KeyError", <<>>)
             /\ UNCHANGED <<awaiting, serial>>
             /\ answered' = answered
        ELSE
    \E turn \in {ProcessTurn(made.sessions[session_id], user_message, wallet_address)} :
    \E session \in WithConfig(turn.session) :
        /\ Len(made.sessions[session_id].messages) < 1 + 2 * MaxTurns
        /\ sessions' = Put(made.sessions, session_id, session)
        /\ session_timestamps' = made.session_timestamps
        /\ now' = now
        /\ lastOp' = [TurnOp(session_id, user_message, wallet_address, got.found,
                             made.sessions[session_id], turn)
                          EXCEPT !.reply = ReplyOf(made.sessions[session_id], turn, engine),
                                 !.engine = engine]
        /\ UNCHANGED <<awaiting, serial>>
        /\ answered' = TurnAnswered(session_id, got.found, made.sessions[session_id], turn)

\* POST /api/orbit-ai/chat
ChatRequest(session_id, user_message, wallet_address) ==
    ChatWith(session_id, user_message, wallet_address, Unrecorded)

\* the deployment ids the deployment service hands out
DeploymentIds == {"d1", "d2"}

\* what the deployment service answers to one request: the success status, another
\* status, or no answer (httpx.HTTPError)
BackendResponses == {"success", "status", "error"}

\* one request to the deployment service and its response
Call(request, response) == [request |-> request, response |-> response]

\* what deploy raises when a request got the response: the status of the response
\* passed on (lines 218-222 and 234-238), or 503 (lines 253-255)
Raised(request, response) ==
    IF response = "error" THEN "503"
    ELSE IF request = "save" THEN "save_failed" ELSE "deploy_failed"

\* a deploy that marks the session when a request fails
ProxyMarksFailure(session) ==
    {[session |-> [session EXCEPT !.deployment_status = "failed"],
      calls |-> <<Call("save", response)>>,
      outcome |-> Raised("save", response)] : response \in BackendResponses \ {"success"}}
    \cup {[session |-> [session EXCEPT !.deployment_status = "failed"],
           calls |-> <<Call("save", "success"), Call("deploy", response)>>,
           outcome |-> Raised("deploy", response)] :
              response \in BackendResponses \ {"success"}}
    \cup {[session |-> [session EXCEPT !.deployment_id = deployment_id,
                                       !.deployment_status = "started"],
           calls |-> <<Call("save", "success"), Call("deploy", "success")>>,
           outcome |-> "ok"] : deployment_id \in DeploymentIds}

\* a deploy that sends both requests and records the deployment whatever the
\* deployment service answers
ProxyUnconditional(session) ==
    {[session |-> [session EXCEPT !.deployment_id = deployment_id,
                                  !.deployment_status = "started"],
      calls |-> <<Call("save", saved), Call("deploy", deployed)>>,
      outcome |-> "ok"] :
        saved \in BackendResponses, deployed \in BackendResponses,
        deployment_id \in DeploymentIds}

\* lines 209-255 of deploy for a session that has a config: the ways the two
\* requests to the deployment service can go, and the session as they leave it
Proxy(session) ==
    {[session |-> session,
      calls |-> <<Call("save", response)>>,
      outcome |-> Raised("save", response)] : response \in BackendResponses \ {"success"}}
    \cup {[session |-> session,
           calls |-> <<Call("save", "success"), Call("deploy", response)>>,
           outcome |-> Raised("deploy", response)] :
              response \in BackendResponses \ {"success"}}
    \cup {[session |-> [session EXCEPT !.deployment_id = deployment_id,
                                       !.deployment_status = "started"],
           calls |-> <<Call("save", "success"), Call("deploy", "success")>>,
           outcome |-> "ok"] : deployment_id \in DeploymentIds}

\* lines 201-255 of deploy for the session found
Deploy(session) ==
    LET Built(built) ==
            IF built = Nothing
            THEN {[session |-> session, calls |-> <<>>, outcome |-> "400"]}
            ELSE Proxy([session EXCEPT !.config = built])
    IN  IF session.config = Nothing
        THEN UNION {Built(built) : built \in BuildFromSession(session)}
        ELSE Proxy(session)

\* POST /api/orbit-ai/deploy
DeployRequest(session_id) ==
    \E got \in {GetSession(Store, session_id, now)} :
    \E done \in (IF got.found THEN Deploy(got.sessions[session_id])
                  ELSE {[session |-> None, calls |-> <<>>,
                         outcome |-> IF got.raised THEN "KeyError" ELSE "404"]}) :
        /\ sessions' = IF got.found THEN Put(got.sessions, session_id, done.session)
                       ELSE got.sessions
        /\ session_timestamps' = got.session_timestamps
        /\ now' = now
        /\ lastOp' = [Handled("deploy", session_id, done.outcome, done.calls)
                          EXCEPT !.found = got.found,
                                 !.step = IF got.found
                                          THEN got.sessions[session_id].current_step
                                          ELSE None]
        /\ UNCHANGED <<awaiting, serial>>
        /\ answered' = answered

\* GET /api/orbit-ai/session/{session_id}
FetchRequest(session_id) ==
    \E got \in {GetSession(Store, session_id, now)} :
        /\ sessions' = got.sessions
        /\ session_timestamps' = got.session_timestamps
        /\ now' = now
        /\ lastOp' = [Handled("fetch", session_id,
                              IF got.raised THEN "KeyError"
                              ELSE IF got.found THEN "ok" ELSE "404", <<>>)
                          EXCEPT !.found = got.found]
        /\ UNCHANGED <<awaiting, serial>>
        /\ answered' = answered

\* POST /api/orbit-ai/session/{session_id}/reset
ResetRequest(session_id) ==
    \E made \in {ResetSession(Store, session_id, now)} :
        /\ sessions' = made.sessions
        /\ session_timestamps' = made.session_timestamps
        /\ now' = now
        /\ lastOp' = [Handled("reset", session_id,
                              IF made.raised THEN "KeyError" ELSE "ok", <<>>)
                          EXCEPT !.found = Has(sessions, session_id)]
        /\ UNCHANGED <<awaiting, serial>>
        /\ answered' = IF made.raised THEN answered ELSE Put(answered, session_id, {})

\* create_session touching the session it returns
CreateSessionTouches(store, session_id, user_id, wallet_address, t) ==
    LET Create(swept) ==
            IF swept.raised THEN swept
            ELSE IF session_id \in DOMAIN swept.sessions
            THEN [sessions |-> swept.sessions,
                  session_timestamps |-> TsPut(swept.session_timestamps, session_id, t),
                  raised |-> FALSE]
            ELSE [sessions |-> Put(swept.sessions, session_id,
                                   NewSession(session_id, user_id, wallet_address)),
                  session_timestamps |-> TsPut(swept.session_timestamps, session_id, t),
                  raised |-> FALSE]
    IN  Create(CleanupExpired(store, t))

\* a caller of the manager's create_session(session_id)
CreateRequest(session_id) ==
    \E made \in {CreateSession(Store, session_id, None, None, now)} :
        /\ sessions' = made.sessions
        /\ session_timestamps' = made.session_timestamps
        /\ now' = now
        /\ lastOp' = [Handled("create", session_id,
                              IF made.raised THEN "KeyError" ELSE "ok", <<>>)
                          EXCEPT !.found = Has(sessions, session_id)]
        /\ UNCHANGED <<awaiting, serial>>
        /\ answered' = IF made.raised THEN answered
                       ELSE IF Has(sessions, session_id)
                               /\ made.sessions[session_id] = sessions[session_id]
                            THEN answered
                       ELSE Put(answered, session_id, {})

\* time passes
Tick ==
    /\ now < MaxTime
    /\ now' = now + 1
    /\ lastOp' = Handled("tick", None, "ok", <<>>)
    /\ UNCHANGED <<sessions, session_timestamps, answered, awaiting, serial>>

(***************************************************************************)
(* The conversation specification: one client talking to one session.      *)
(***************************************************************************)
SessionId == "s1"

\* the chat requests: any message without a wallet, and the wallet phrase with one
Requests ==
    {<<m, None>> : m \in Messages} \cup {<<"use my wallet", Wallet>>}

Init ==
    /\ sessions = EmptyDict
    /\ session_timestamps = EmptyDict
    /\ now = 0
    /\ lastOp = [kind |-> "init", sid |-> None, msg |-> "", wallet |-> None,
                 found |-> FALSE, step |-> None, target |-> None, cross |-> FALSE,
                 extracted |-> FALSE, was_default |-> FALSE, outcome |-> "ok",
                 calls |-> <<>>, reply |-> None,
                 engine |-> [groq |-> None, gemini |-> None]]
    /\ answered = EmptyDict
    /\ awaiting = <<>>
    /\ serial = EmptyDict

Chat == \E r \in Requests : ProcessMessage(SessionId, r[1], r[2])

Next == Chat

Spec == Init /\ [][Next]_vars

(***************************************************************************)
(* The service specification: one client of the chat endpoint, talking to  *)
(* one session.                                                            *)
(***************************************************************************)
\* the chat requests of the service specification
ServiceRequests ==
    {<<m, None>> : m \in ServiceMessages}
        \cup {<<"use my wallet", Wallet>>, <<"use my wallet", WalletWithNewline>>}

\* the client sends at most MaxServiceTurns messages
ServiceChat ==
    /\ Has(sessions, SessionId)
            => Len(sessions[SessionId].messages) < 1 + 2 * MaxServiceTurns
    /\ \E r \in ServiceRequests : ChatRequest(SessionId, r[1], r[2])

SpecService == Init /\ [][ServiceChat]_vars

(***************************************************************************)
(* The deployment specification: one client of the chat and deploy         *)
(* endpoints, talking to one session.                                      *)
(***************************************************************************)
\* the chat requests of the deployment specification
DeployRequests ==
    {<<"a cheaper gaming chain", None>>, <<"use my wallet", None>>,
     <<"use my wallet", Wallet>>, <<"use my wallet", WalletWithNewline>>}

\* the client sends at most MaxServiceTurns messages
DeployChat ==
    /\ Has(sessions, SessionId)
            => Len(sessions[SessionId].messages) < 1 + 2 * MaxServiceTurns
    /\ \E r \in DeployRequests : ChatRequest(SessionId, r[1], r[2])

DeployNext == DeployChat \/ DeployRequest(SessionId)

SpecDeploy == Init /\ [][DeployNext]_vars

(***************************************************************************)
(* The engine specification: one client of the chat endpoint, talking to   *)
(* one session, while the two text-generation providers answer or fail.    *)
(***************************************************************************)
\* the chat requests of the engine specification
EngineRequests ==
    {<<"a cheaper gaming chain", None>>, <<"hi", None>>, <<"undo", None>>,
     <<"use my wallet", Wallet>>}

\* the client sends at most MaxServiceTurns messages
EngineChat ==
    /\ Has(sessions, SessionId)
            => Len(sessions[SessionId].messages) < 1 + 2 * MaxServiceTurns
    /\ \E r \in EngineRequests, engine \in Engines :
            ChatWith(SessionId, r[1], r[2], engine)

SpecEngine == Init /\ [][EngineChat]_vars

(***************************************************************************)
(* The store specification: clients of the chat, session and reset         *)
(* endpoints talking to two sessions while time passes.                    *)
(***************************************************************************)
SessionIds == {"s1", "s2"}

\* the chat requests of the store specification
StoreRequests ==
    {<<"I want to build a gaming chain", None>>, <<"undo", None>>,
     <<"use my wallet", Wallet>>}

\* a session takes at most MaxStoreTurns messages
StoreChat ==
    \E session_id \in SessionIds, r \in StoreRequests :
        /\ Has(sessions, session_id)
                => Len(sessions[session_id].messages) < 1 + 2 * MaxStoreTurns
        /\ ChatRequest(session_id, r[1], r[2])

StoreFetch == \E session_id \in SessionIds : FetchRequest(session_id)

StoreReset == \E session_id \in SessionIds : ResetRequest(session_id)

StoreNext == StoreChat \/ StoreFetch \/ StoreReset \/ Tick

SpecStore == Init /\ [][StoreNext]_vars

(***************************************************************************)
(* What the properties speak about.                                        *)
(***************************************************************************)
Live == SessionId \in DOMAIN sessions

Session == sessions[SessionId]

\* the session a request finds: the stored one, or the one create_session makes
Before == IF Live THEN sessions[SessionId] ELSE NewSession(SessionId, None, None)

After == sessions'[SessionId]

\* the default-provenance set
DefaultsOf(session) ==
    IF Has(session.collected_params, "_defaults")
    THEN {session.collected_params["_defaults"][i] :
              i \in 1..Len(session.collected_params["_defaults"])}
    ELSE {}

\* the slots a preset covers
PresetSlots ==
    {"parent_chain", "data_availability", "validators", "native_token", "block_time",
     "gas_limit", "challenge_period"}

\* the default the preset of use_case prescribes for a slot
PresetValue(use_case, slot) ==
    LET mapping == DefaultMapping(USE_CASE_PRESETS[use_case])
    IN  mapping[CHOOSE i \in 1..Len(mapping) : mapping[i][1] = slot][2]

\* the turn being taken: its message, and what the extractor of a step yields for it
TurnMessage == lastOp'.msg

IsTurn == lastOp'.kind = "turn"

Yield(step) ==
    ExtractValue([Before EXCEPT !.current_step = step,
                                !.wallet_address = IF lastOp'.wallet # None THEN lastOp'.wallet
                                                   ELSE @],
                 TurnMessage).value

\* the slots other than the cursor whose signal the message carries, in scan order
ForeignSignals ==
    {n \in signalled_steps[TurnMessage] : IntentSignals[n].step # Before.current_step}

TranscriptGrows == After.messages = Before.messages \o <<"user", "assistant">>

(***************************************************************************)
(* C1: a casual message leaves the cursor, the slot values and the         *)
(* default-provenance set (all of collected_params) and the phase as they  *)
(* were, at every cursor position; the turn only appends the user message  *)
(* and the reply to the transcript.                                        *)
(***************************************************************************)
C1_CasualChangesNothing ==
    [][ (IsTurn /\ is_casual_message[TurnMessage]) =>
            /\ After.current_step = Before.current_step
            /\ After.collected_params = Before.collected_params
            /\ After.phase = Before.phase
            /\ TranscriptGrows ]_vars

\* a casual message arrived while parent_chain was asked, after defaults were propagated
C1_Witness ==
    /\ Live
    /\ lastOp.kind = "turn"
    /\ is_casual_message[lastOp.msg]
    /\ lastOp.step = "parent_chain"
    /\ Session.current_step = "parent_chain"
    /\ DefaultsOf(Session) # {}

(***************************************************************************)
(* C2 as stated: for every slot other than the cursor whose signal a       *)
(* non-casual message carries and whose extractor yields a value, the turn *)
(* writes that value to the slot, unflags the slot and keeps the cursor.   *)
(***************************************************************************)
C2_EverySignalledSlotWritten ==
    [][ (IsTurn /\ ~is_casual_message[TurnMessage]) =>
            \A n \in ForeignSignals :
                LET slot == IntentSignals[n].step
                IN  Yield(slot) # Nothing =>
                        /\ Has(After.collected_params, slot)
                        /\ After.collected_params[slot] = Yield(slot)[1]
                        /\ slot \notin DefaultsOf(After)
                        /\ After.current_step = Before.current_step ]_vars

(***************************************************************************)
(* C2 amended: the same for the FIRST slot in scan order (parent_chain,    *)
(* data_availability, validators, owner_address, native_token) other than  *)
(* the cursor whose signal the message carries.                            *)
(***************************************************************************)
C2_FirstSignalledSlotWritten ==
    [][ (IsTurn /\ ~is_casual_message[TurnMessage] /\ ForeignSignals # {}) =>
            LET slot == IntentSignals[Least(ForeignSignals)].step
            IN  Yield(slot) # Nothing =>
                    /\ Has(After.collected_params, slot)
                    /\ After.collected_params[slot] = Yield(slot)[1]
                    /\ slot \notin DefaultsOf(After)
                    /\ After.current_step = Before.current_step ]_vars

\* "... mainnet" while chain_name was asked: the flagged parent_chain default was replaced
C2_Witness ==
    /\ Live
    /\ lastOp.kind = "turn" /\ lastOp.cross /\ lastOp.extracted /\ lastOp.was_default
    /\ lastOp.step = "chain_name" /\ lastOp.target = "parent_chain"
    /\ Session.current_step = "chain_name"
    /\ Session.collected_params["parent_chain"] = "arbitrum-one"
    /\ "parent_chain" \notin DefaultsOf(Session)

\* the cross-slot scan matched a slot and the extractor of that slot yields nothing
CrossSlotFails == IsTurn /\ lastOp'.cross /\ Yield(lastOp'.target) = Nothing

(***************************************************************************)
(* C3 as stated: when the scan matches a foreign slot whose extractor      *)
(* yields nothing, the extractor of the current slot still runs on the     *)
(* message; if it yields a value, the current slot is written and the      *)
(* cursor advances.                                                        *)
(***************************************************************************)
C3_FallsBackToCurrentSlot ==
    [][ (CrossSlotFails /\ Yield(Before.current_step) # Nothing) =>
            /\ Has(After.collected_params, Before.current_step)
            /\ After.collected_params[Before.current_step] = Yield(Before.current_step)[1]
            /\ StepIndex(After.current_step) = StepIndex(Before.current_step) + 1 ]_vars

(***************************************************************************)
(* C3 amended: when the scan matches a foreign slot whose extractor yields *)
(* nothing, the extractor of the current slot is not run in that turn: no  *)
(* slot is written and the cursor stays.                                   *)
(***************************************************************************)
C3_FailedCrossSlotWritesNothing ==
    [][ CrossSlotFails =>
            /\ After.current_step = Before.current_step
            /\ After.collected_params = Before.collected_params ]_vars

\* a data-availability question without a mode while parent_chain was asked,
\* whose extractor yields a value for any message that is not casual
C3_Witness ==
    /\ Live
    /\ lastOp.kind = "turn" /\ lastOp.cross /\ ~lastOp.extracted
    /\ lastOp.step = "parent_chain" /\ lastOp.target = "data_availability"
    /\ Session.current_step = "parent_chain"

C5_GoBackMovesCursorOnly ==
    [][ (lastOp'.kind # "init" /\ msg_lower_of[TurnMessage] \in {"go back", "back", "previous", "undo"}) =>
            /\ StepIndex(After.current_step) =
                   IF StepIndex(Before.current_step) > 1
                   THEN StepIndex(Before.current_step) - 1
                   ELSE 1
            /\ After.collected_params = Before.collected_params
            /\ ~lastOp'.extracted
            /\ TranscriptGrows ]_vars

\* back from data_availability to parent_chain, whose value is kept
C5_Witness ==
    /\ Live
    /\ lastOp.kind = "go_back"
    /\ lastOp.step = "data_availability"
    /\ Session.current_step = "parent_chain"
    /\ Has(Session.collected_params, "parent_chain")

(***************************************************************************)
(* C6 as stated: every successful use_case extraction, whatever category   *)
(* it yields, fills each preset-covered slot that has no value yet with    *)
(* the default of the preset and flags it as default.                      *)
(***************************************************************************)
C6_UseCasePropagatesDefaults ==
    [][ (IsTurn /\ ~lastOp'.cross /\ Before.current_step = "use_case"
            /\ Yield("use_case") # Nothing) =>
            \A slot \in PresetSlots :
                ~Has(Before.collected_params, slot) =>
                    /\ Has(After.collected_params, slot)
                    /\ After.collected_params[slot] = PresetValue(Yield("use_case")[1], slot)
                    /\ slot \in DefaultsOf(After) ]_vars

(***************************************************************************)
(* C7: once defaults are propagated, a turn that answers a flagged slot    *)
(* (as the current slot or across slots) removes exactly that slot from    *)
(* the default-provenance set; the other flagged slots stay flagged and    *)
(* keep their values.                                                      *)
(***************************************************************************)
C7_AnswerUnflagsOnlyItsSlot ==
    [][ (IsTurn /\ lastOp'.extracted) =>
            LET slot == IF lastOp'.cross THEN lastOp'.target ELSE Before.current_step
            IN  slot \in DefaultsOf(Before) =>
                    /\ DefaultsOf(After) = DefaultsOf(Before) \ {slot}
                    /\ \A other \in DefaultsOf(After) :
                           After.collected_params[other] = Before.collected_params[other] ]_vars

\* validators, flagged as default, was answered while other slots are still flagged
C7_Witness ==
    /\ Live
    /\ lastOp.kind = "turn" /\ lastOp.extracted /\ lastOp.was_default
    /\ lastOp.step = "validators" /\ ~lastOp.cross
    /\ "validators" \notin DefaultsOf(Session)
    /\ {"block_time", "gas_limit"} \subseteq DefaultsOf(Session)

(***************************************************************************)
(* C8 as stated: a slot is in the default-provenance set only while its    *)
(* value is a propagated default that no answer has confirmed; a slot the  *)
(* user has answered is never flagged as default.                          *)
(***************************************************************************)
C8_AnsweredSlotNeverFlagged ==
    Live => DefaultsOf(Session) \cap answered[SessionId] = {}

(***************************************************************************)
(* C9: on a fresh session "I want to build a gaming chain" sets use_case   *)
(* to gaming, fills block_time 1, gas_limit 50000000, validators 3,        *)
(* data_availability anytrust and challenge_period 7 as flagged defaults   *)
(* and moves the cursor from use_case to chain_name.                       *)
(***************************************************************************)
C9_GamingScenario ==
    [][ (IsTurn /\ TurnMessage = "I want to build a gaming chain"
            /\ Before = NewSession(SessionId, None, None)) =>
            /\ After.current_step = "chain_name"
            /\ {"use_case", "block_time", "gas_limit", "validators", "data_availability",
                "challenge_period"} \subseteq DOMAIN After.collected_params
            /\ After.collected_params["use_case"] = "gaming"
            /\ After.collected_params["block_time"] = 1
            /\ After.collected_params["gas_limit"] = 50000000
            /\ After.collected_params["validators"] = 3
            /\ After.collected_params["data_availability"] = "anytrust"
            /\ After.collected_params["challenge_period"] = 7
            /\ {"block_time", "gas_limit", "validators", "data_availability",
                "challenge_period"} \subseteq DefaultsOf(After)
            /\ "use_case" \notin DefaultsOf(After) ]_vars

\* the gaming sentence was the first message of the session
C9_Witness ==
    /\ Live
    /\ lastOp.kind = "turn" /\ lastOp.msg = "I want to build a gaming chain"
    /\ lastOp.step = "use_case"
    /\ Len(Session.messages) = 3
    /\ Session.current_step = "chain_name"

(***************************************************************************)
(* C10: a turn in which the extractor that ran (of the detected foreign    *)
(* slot, else of the current slot) yields nothing leaves the cursor,       *)
(* collected_params (slot values and default-provenance set) and the phase *)
(* as they were; it only appends the message and the reply.                *)
(***************************************************************************)
C10_NoValueChangesNothing ==
    [][ (IsTurn /\ Yield(IF lastOp'.cross THEN lastOp'.target ELSE Before.current_step) = Nothing) =>
            /\ After.current_step = Before.current_step
            /\ After.collected_params = Before.collected_params
            /\ After.phase = Before.phase
            /\ TranscriptGrows ]_vars

\* a message that names no mode while data_availability was asked
C10_Witness ==
    /\ Live
    /\ lastOp.kind = "turn" /\ ~lastOp.cross /\ ~lastOp.extracted
    /\ ~is_casual_message[lastOp.msg]
    /\ lastOp.step = "data_availability"
    /\ Session.current_step = "data_availability"
    /\ DefaultsOf(Session) # {}

(***************************************************************************)
(* Helpers of the properties of the validators and owner_address slots.    *)
(***************************************************************************)
\* a decimal literal of a count from 1 to 20
NumericLiteral(message) ==
    /\ Len(message) > 0
    /\ \A i \in 1..Len(message) : IsDigit(Ch(message, i))
    /\ StrToInt(message) \in 1..20

\* 0x followed by exactly 40 hex digits, and nothing else
StrictAddress(a) ==
    /\ a \in STRING
    /\ Len(a) = 42
    /\ Slice(a, 1, 2) = "0x"
    /\ \A i \in 3..42 : IsHex(Ch(a, i))

\* a strict address in lower case
StrictLowerAddress(a) == StrictAddress(a) /\ Lower(a) = a

\* the value of a slot, None when the slot is empty
SlotOf(session, slot) ==
    IF Has(session.collected_params, slot) THEN session.collected_params[slot] ELSE None

(***************************************************************************)
(* C11 as stated: with the cursor at validators, a message that is a       *)
(* numeric literal in [1,20] (such as "5") is taken as the validators      *)
(* value: the slot holds that number after the turn and the cursor has     *)
(* moved on.                                                               *)
(***************************************************************************)
C11_NumericLiteralWritten ==
    [][ (IsTurn /\ Before.current_step = "validators" /\ NumericLiteral(TurnMessage)) =>
            /\ SlotOf(After, "validators") = StrToInt(TurnMessage)
            /\ After.current_step # "validators" ]_vars

(***************************************************************************)
(* C12 as stated: with the cursor at validators, the message "twenty five" *)
(* (a count outside the supported range) yields no value: the validators   *)
(* slot is left as it was and the cursor stays at validators.              *)
(***************************************************************************)
C12_OutOfRangeCountRejected ==
    [][ (IsTurn /\ Before.current_step = "validators" /\ TurnMessage = "twenty five") =>
            /\ SlotOf(After, "validators") = SlotOf(Before, "validators")
            /\ After.current_step = "validators" ]_vars

(***************************************************************************)
(* C13 as stated, for a client that has no wallet: with the cursor at      *)
(* owner_address, a message that fails the strict 42-character pattern     *)
(* yields no value: the owner_address slot is left as it was and the       *)
(* cursor stays at owner_address.                                          *)
(***************************************************************************)
C13_InvalidAddressRejected ==
    [][ (IsTurn /\ Before.current_step = "owner_address"
            /\ Before.wallet_address = None /\ lastOp'.wallet = None
            /\ ~StrictAddress(TurnMessage)) =>
            /\ SlotOf(After, "owner_address") = SlotOf(Before, "owner_address")
            /\ After.current_step = "owner_address" ]_vars

(***************************************************************************)
(* C14 as stated: in every reachable state the owner_address slot, once    *)
(* set, is a 42-character 0x-prefixed lowercase hex string, and the owner  *)
(* address and every validator address of an assembled config match the    *)
(* strict pattern.                                                         *)
(***************************************************************************)
C14_AddressesStrict ==
    Live =>
        /\ Has(Session.collected_params, "owner_address")
                => StrictLowerAddress(Session.collected_params["owner_address"])
        /\ Session.config # Nothing
                => /\ StrictAddress(Session.config[1].ownerAddress)
                   /\ \A k \in 1..Len(Session.config[1].validators) :
                          StrictAddress(Session.config[1].validators[k])

(***************************************************************************)
(* Helpers of the properties of the deploy endpoint.                       *)
(***************************************************************************)
IsDeploy == lastOp'.kind = "deploy"

\* the requests of the deploy request that the deployment service did not answer
\* with success
FailedCalls(op) == {k \in 1..Len(op.calls) : op.calls[k].response # "success"}

(***************************************************************************)
(* C19 as stated: a configuration is handed to the deployment service only *)
(* for a session whose cursor has reached complete: a deploy request that  *)
(* sends anything to the deployment service found the cursor at complete.  *)
(***************************************************************************)
C19_DeployOnlyWhenComplete ==
    [][ (IsDeploy /\ lastOp'.calls # <<>>) => Before.current_step = "complete" ]_vars

(***************************************************************************)
(* C20: when the save-config request or the deploy request to the          *)
(* deployment service fails (a non-success status or a connection error),  *)
(* the deploy endpoint answers with an error, leaves the deployment id and *)
(* the deployment status of the session as they were, and sends no request *)
(* a second time.                                                          *)
(***************************************************************************)
C20_FailedDeployLeavesSession ==
    [][ (IsDeploy /\ FailedCalls(lastOp') # {}) =>
            /\ lastOp'.outcome \in {"save_failed", "deploy_failed", "503"}
            /\ After.deployment_id = Before.deployment_id
            /\ After.deployment_status = Before.deployment_status
            /\ \A j, k \in 1..Len(lastOp'.calls) :
                   lastOp'.calls[j].request = lastOp'.calls[k].request => j = k ]_vars

\* the deploy request failed at the deployment service for a session that an
\* earlier deploy request had started
C20_Witness ==
    /\ Live
    /\ lastOp.kind = "deploy"
    /\ FailedCalls(lastOp) # {}
    /\ lastOp.calls[Len(lastOp.calls)].request = "deploy"
    /\ Session.deployment_id \in DeploymentIds
    /\ Session.deployment_status = "started"

(***************************************************************************)
(* Helpers of the properties of the session store.                         *)
(***************************************************************************)
\* the time of the last touch of a session that has a timestamp
LastTouch(session_id) ==
    (CHOOSE i \in 1..Len(session_timestamps) : session_timestamps[i][1] = session_id)

\* the store holds the session and its idle time does not exceed the TTL
WithinTtl(session_id) ==
    /\ Has(sessions, session_id)
    /\ session_id \in TsKeys(session_timestamps)
    /\ now - session_timestamps[LastTouch(session_id)][2] <= ttl_seconds

(***************************************************************************)
(* C15 as stated: a fetch finds a session if and only if the store holds   *)
(* it and its idle time since the last touch does not exceed the TTL at    *)
(* that moment; otherwise the fetch answers not-found.                     *)
(***************************************************************************)
C15_FetchFindsWithinTtl ==
    [][ lastOp'.kind = "fetch" =>
            /\ lastOp'.outcome = "ok" <=> WithinTtl(lastOp'.sid)
            /\ lastOp'.outcome # "ok" => lastOp'.outcome = "404" ]_vars

(***************************************************************************)
(* C16 as stated: in every reachable state of the store, the request       *)
(* handled last (a message submission with its create-or-fetch, a fetch or *)
(* a reset, for a known, an unknown or an expired and unswept session id)  *)
(* completed with a session or with not-found: none raised.                *)
(***************************************************************************)
C16_NoRequestRaises == lastOp.outcome \in {"ok", "404"}

(***************************************************************************)
(* C17 as stated: reset(session_id) yields a fresh session with the same   *)
(* id and the user id and wallet the session had before, phase greeting,   *)
(* cursor at use_case, an empty slot map and a transcript holding only the *)
(* greeting (so a second reset in a row yields the same session again).    *)
(***************************************************************************)
C17_ResetYieldsFreshSession ==
    [][ lastOp'.kind = "reset" =>
            /\ Has(sessions', lastOp'.sid)
            /\ sessions'[lastOp'.sid] =
                   IF Has(sessions, lastOp'.sid)
                   THEN NewSession(lastOp'.sid, sessions[lastOp'.sid].user_id,
                                   sessions[lastOp'.sid].wallet_address)
                   ELSE NewSession(lastOp'.sid, None, None) ]_vars

(***************************************************************************)
(* C18: sessions are independent: a request (turn, go-back, reset, fetch)  *)
(* addressed to a session id leaves every other session that is live and  *)
(* within the TTL in the store with its cursor, slot map, provenance set,  *)
(* phase and transcript unchanged.                                         *)
(***************************************************************************)
C18_SessionsIndependent ==
    [][ \A b \in SessionIds :
            (lastOp'.sid \in SessionIds \ {b} /\ WithinTtl(b)) =>
                /\ Has(sessions', b)
                /\ sessions'[b] = sessions[b] ]_vars

\* a reset of s1 ran, after time had passed, while s2 held answers and was idle
\* for exactly the TTL
C18_Witness ==
    /\ lastOp.kind = "reset"
    /\ lastOp.sid = "s1"
    /\ lastOp.found
    /\ WithinTtl("s2")
    /\ now - session_timestamps[LastTouch("s2")][2] = ttl_seconds
    /\ Has(sessions["s2"].collected_params, "use_case")

(***************************************************************************)
(* Helpers of the properties of the text-generation fallback.              *)
(***************************************************************************)
\* neither provider gave a text during the turn
BothProvidersFail(op) ==
    /\ op.engine # Unrecorded
    /\ op.engine.groq # "text"
    /\ op.engine.gemini # "text"

\* what the turn decided before the reply was asked for
Decided == ProcessTurn(Before, TurnMessage, lastOp'.wallet).session

(***************************************************************************)
(* C21: when neither text-generation provider gives a text (no client, an  *)
(* error or an empty answer), the turn still completes without error: the  *)
(* cursor, the slot map and the phase the turn decided are kept, and the   *)
(* assistant message appended to the transcript is the canned question of  *)
(* the current step.                                                       *)
(***************************************************************************)
C21_FallbackQuestion ==
    [][ (IsTurn /\ BothProvidersFail(lastOp')) =>
            /\ lastOp'.outcome = "ok"
            /\ After.current_step = Decided.current_step
            /\ After.collected_params = Decided.collected_params
            /\ After.phase = Decided.phase
            /\ TranscriptGrows
            /\ lastOp'.reply = GetStepQuestion(After.current_step,
                                               After.collected_params) ]_vars

\* Groq raised and Gemini gave no text in a turn that answered native_token: the
\* reply is the question of block_time, left as a template
C21_Witness ==
    /\ Live
    /\ lastOp.kind = "turn"
    /\ lastOp.engine # Unrecorded
    /\ lastOp.engine.groq = "error"
    /\ lastOp.engine.gemini = "empty"
    /\ lastOp.extracted
    /\ lastOp.step = "native_token"
    /\ Session.current_step = "block_time"
    /\ lastOp.reply = [question |-> "block_time", formatted |-> FALSE]

(***************************************************************************)
(* The data availability specification: one client of the chat endpoint    *)
(* who names a use case and a chain and answers the data availability      *)
(* question in many ways.                                                  *)
(***************************************************************************)
DataAvailabilityRequests ==
    {<<m, None>> : m \in DataAvailabilityMessages
                        \cup {"a cheaper gaming chain", "OrbitApp", "yes", "undo",
                              "use rollup on mainnet", "what is data availability"}}

DataAvailabilityChat ==
    /\ Has(sessions, SessionId)
            => Len(sessions[SessionId].messages) < 1 + 2 * MaxServiceTurns
    /\ \E r \in DataAvailabilityRequests : ChatRequest(SessionId, r[1], r[2])

SpecDataAvailability == Init /\ [][DataAvailabilityChat]_vars

\* the pattern sets of lines 372-373 a message matches, and whether it affirms
data_availability_match ==
    [m \in Corpus |-> [rollup |-> ContainsAny(RollupPatterns, msg_lower_of[m]),
                       anytrust |-> ContainsAny(AnytrustPatterns, msg_lower_of[m]),
                       affirmation |-> msg_lower_of[m] \in DAAffirmations]]

(***************************************************************************)
(* C23 as stated: with the cursor at data_availability, a message that     *)
(* contains a rollup pattern yields rollup (the slot holds rollup after    *)
(* the turn), also when it matches an anytrust pattern as well; a message  *)
(* that matches neither pattern set and is no affirmation yields no value  *)
(* (the slot is left as it was and the cursor stays).                      *)
(***************************************************************************)
C23_RollupPatternWins ==
    [][ (IsTurn /\ lastOp'.step = "data_availability") =>
            LET Holds(match, old, new) ==
                    /\ match.rollup => new = "rollup"
                    /\ (~match.rollup /\ ~match.anytrust /\ ~match.affirmation) =>
                           new = old /\ After.current_step = "data_availability"
            IN  Holds(data_availability_match[TurnMessage],
                      SlotOf(Before, "data_availability"),
                      SlotOf(After, "data_availability")) ]_vars

(***************************************************************************)
(* The manager specification: callers of the three operations of the       *)
(* ConversationManager that access a session (create_session, get_session, *)
(* process_message) while time passes.                                     *)
(***************************************************************************)
ManagerCreate == \E session_id \in SessionIds : CreateRequest(session_id)

ManagerNext == ManagerCreate \/ StoreFetch \/ StoreChat \/ Tick

SpecManager == Init /\ [][ManagerNext]_vars

\* the last-active timestamp the timestamps map holds for a session
TouchOf(timestamps, session_id) ==
    timestamps[CHOOSE i \in 1..Len(timestamps) : timestamps[i][1] = session_id][2]

(***************************************************************************)
(* C24 as stated: an access to a session that exists (the store holds it   *)
(* and it is within the TTL) through create-or-fetch, fetch or message     *)
(* submission leaves the access time as its last-active timestamp.        *)
(***************************************************************************)
C24_AccessTouches ==
    [][ (lastOp'.kind \in {"create", "fetch", "turn", "go_back"} /\ WithinTtl(lastOp'.sid)) =>
            /\ Has(sessions', lastOp'.sid)
            /\ TouchOf(session_timestamps', lastOp'.sid) = now ]_vars

(***************************************************************************)
(* The configuration specification: build_from_session and validate_config *)
(* as functions.  The initial state holds the arguments of a call in       *)
(* lastOp (a slot map with a wallet, or a configuration record); the call  *)
(* leaves what it returned.                                                *)
(***************************************************************************)
CONFIG_SLOTS ==
    {"use_case", "chain_name", "parent_chain", "data_availability", "validators",
     "owner_address", "native_token", "block_time", "gas_limit", "challenge_period"}

\* fully populated slot maps, on and beyond the limits of the validation pass
FullSlotMaps ==
    {[use_case |-> "gaming", chain_name |-> chain_name, parent_chain |-> "arbitrum-sepolia",
      data_availability |-> "anytrust", validators |-> count, owner_address |-> owner,
      native_token |-> EtherToken, block_time |-> block_time, gas_limit |-> gas_limit,
      challenge_period |-> 7] :
        chain_name \in {"OrbitApp", "my chain", "!!!"}, count \in {0, 1, 3},
        owner \in {Lower(Wallet), ZeroAddress},
        block_time \in {0, 1, 30, 31}, gas_limit \in {999999, 1000000}}

\* the slot maps of the calls: the full ones, and the same without an owner
ConfigSlotMaps == FullSlotMaps \cup {DictDel(m, "owner_address") : m \in FullSlotMaps}

\* configuration records, on and beyond the limits of the validation pass
ConfigRecords ==
    {[name |-> name, chain_id |-> 412000, parent_chain |-> "arbitrum-sepolia",
      owner_address |-> owner, validators |-> generate_validators[count],
      data_availability |-> "anytrust",
      chain_config |-> [chain_name |-> "Orbitapp", native_token |-> EtherToken,
                        sequencer_url |-> GenerateSequencerUrl("OrbitApp"),
                        block_time |-> block_time, gas_limit |-> gas_limit,
                        challenge_period_days |-> 7],
      use_case |-> "gaming"] :
        name \in {"", "orbitapp"}, owner \in {None, ZeroAddress, Lower(Wallet)},
        count \in {0, 1}, block_time \in {0, 1, 30, 31}, gas_limit \in {999999, 1000000}}

InitConfig ==
    /\ sessions = EmptyDict
    /\ session_timestamps = EmptyDict
    /\ now = 0
    /\ answered = EmptyDict
    /\ awaiting = <<>>
    /\ serial = EmptyDict
    /\ lastOp \in {[kind |-> "slots", params |-> m, wallet |-> w] :
                        m \in ConfigSlotMaps, w \in {None, Wallet}}
                  \cup {[kind |-> "record", config |-> Some(r)] : r \in ConfigRecords}

\* build_from_session(session), and validate_config of the record it returns
AssembleCall ==
    /\ lastOp.kind = "slots"
    /\ \E built \in {Assemble([NewSession(SessionId, None, lastOp.wallet)
                                    EXCEPT !.collected_params = lastOp.params],
                               name_id, chain_id) :
                          name_id \in ChainIds, chain_id \in ChainIds} :
           lastOp' = [kind |-> "assemble", params |-> lastOp.params,
                      wallet |-> lastOp.wallet, config |-> built,
                      valid |-> IF built = Nothing THEN Nothing
                                ELSE Some(ValidateConfig(built[1]))]
    /\ UNCHANGED <<sessions, session_timestamps, now, answered, awaiting, serial>>

\* validate_config(config)
ValidateCall ==
    /\ lastOp.kind = "record"
    /\ lastOp' = [kind |-> "validate", config |-> lastOp.config,
                  valid |-> Some(ValidateConfig(lastOp.config[1]))]
    /\ UNCHANGED <<sessions, session_timestamps, now, answered, awaiting, serial>>

ConfigNext == AssembleCall \/ ValidateCall

SpecConfig == InitConfig /\ [][ConfigNext]_vars

\* the constraints of the round trip on a slot map
Constrained(params) ==
    /\ DOMAIN params = CONFIG_SLOTS
    /\ validate_address[params.owner_address] # ValueError
    /\ params.owner_address # ZeroAddress
    /\ params.validators >= 1
    /\ params.block_time \in 1..30
    /\ params.gas_limit >= 1000000
    /\ params.chain_name # ""

(***************************************************************************)
(* C25 as stated: for every fully populated slot map with a valid non-zero *)
(* owner address, a validator count of at least 1, a block time in [1,30], *)
(* a gas limit of at least 1,000,000 and a non-empty name, the assembler   *)
(* returns a record and validating the record yields ok with an empty      *)
(* error list.                                                             *)
(***************************************************************************)
C25_RoundTrip ==
    [][ (lastOp'.kind = "assemble" /\ Constrained(lastOp'.params)) =>
            /\ lastOp'.config # Nothing
            /\ lastOp'.valid = Some([ok |-> TRUE, errors |-> <<>>]) ]_vars

\* the checks of the validation pass a record violates, by their error messages
ViolatedChecks(config) ==
    {error \in {"Chain name is required", "Valid owner address is required",
                "At least 1 validator is required",
                "Block time must be between 1-30 seconds", "Gas limit too low"} :
        \/ error = "Chain name is required" /\ config.name = ""
        \/ /\ error = "Valid owner address is required"
           /\ config.owner_address \in {None, ZeroAddress}
        \/ error = "At least 1 validator is required" /\ config.validators = <<>>
        \/ /\ error = "Block time must be between 1-30 seconds"
           /\ config.chain_config.block_time \notin 1..30
        \/ error = "Gas limit too low" /\ config.chain_config.gas_limit < 1000000}

(***************************************************************************)
(* C27: validating a record returns (it does not raise) ok exactly when    *)
(* the error list is empty, and the list holds one error for each violated *)
(* check among name empty, owner address missing or zero, no validator,    *)
(* block time outside [1,30], gas limit below 1,000,000, and no other;     *)
(* the assembler returns a record with the zero address as owner when the  *)
(* slot map and the session name no owner, and that record fails           *)
(* validation.                                                             *)
(***************************************************************************)
C27_ValidationListsViolations ==
    [][ /\ (lastOp'.kind \in {"assemble", "validate"} /\ lastOp'.config # Nothing) =>
               /\ lastOp'.valid # Nothing
               /\ lastOp'.valid[1].ok <=> lastOp'.valid[1].errors = <<>>
               /\ Len(lastOp'.valid[1].errors) = Cardinality(ViolatedChecks(lastOp'.config[1]))
               /\ {lastOp'.valid[1].errors[k] : k \in 1..Len(lastOp'.valid[1].errors)}
                      = ViolatedChecks(lastOp'.config[1])
        /\ (lastOp'.kind = "assemble" /\ ~Has(lastOp'.params, "owner_address")
                /\ lastOp'.wallet = None /\ lastOp'.params.validators >= 1
                /\ NameIsValid(lastOp'.params.chain_name)) =>
               /\ lastOp'.config # Nothing
               /\ lastOp'.config[1].owner_address = ZeroAddress
               /\ ~lastOp'.valid[1].ok ]_vars

\* a record assembled with the zero address as owner, and nothing else wrong, fails
\* validation on the owner alone
C27_Witness ==
    /\ lastOp.kind = "assemble"
    /\ ~Has(lastOp.params, "owner_address")
    /\ lastOp.config # Nothing
    /\ lastOp.config[1].owner_address = ZeroAddress
    /\ lastOp.valid = Some([ok |-> FALSE, errors |-> <<"Valid owner address is required">>])

(***************************************************************************)
(* The review specification: one client of the chat endpoint who names a   *)
(* use case and a chain, accepts what is proposed and connects a wallet.   *)
(***************************************************************************)
ReviewRequests ==
    {<<"a cheaper gaming chain", None>>, <<"OrbitApp", None>>, <<Punctuation, None>>,
     <<"yes", None>>, <<"undo", None>>, <<"use my wallet", Wallet>>}

ReviewChat ==
    /\ Has(sessions, SessionId)
            => Len(sessions[SessionId].messages) < 1 + 2 * MaxServiceTurns
    /\ \E r \in ReviewRequests : ChatRequest(SessionId, r[1], r[2])

SpecReview == Init /\ [][ReviewChat]_vars

(***************************************************************************)
(* C26 as stated: whenever a message submission returns with the session   *)
(* in phase review, the assembler produces a record for the session (never *)
(* no-config) and the session holds the assembled config of the response.  *)
(***************************************************************************)
C26_ReviewHasConfig ==
    [][ (lastOp'.kind \in {"turn", "go_back"} /\ After.phase = "review") =>
            /\ Nothing \notin BuildFromSession(After)
            /\ After.config # Nothing ]_vars

(***************************************************************************)
(* The overlap specification: one client whose chat requests overlap.  The *)
(* service runs on one event loop, so a handler runs without interruption  *)
(* from one await to the next: process_message runs from line 106 to the   *)
(* await of generate_response at line 188 in one step, and from the answer *)
(* of generate_response to the end of the chat handler in another.         *)
(***************************************************************************)
\* the turns a session takes
MaxOverlapTurns == 4

\* the turns that may wait for the text generation at the same time
MaxAwaiting == 2

OverlapRequests ==
    {<<"a cheaper gaming chain", None>>, <<"OrbitApp", None>>, <<"yes", None>>,
     <<"undo", None>>, <<"hi", None>>, <<"use rollup on mainnet", None>>}

\* the session at the await of line 188: the turn without its assistant message
AtAwait(session) == [session EXCEPT !.messages = SubSeq(@, 1, Len(@) - 1)]

\* the arguments of the suspended call of generate_response (lines 188-194)
Suspended(session_id, session) ==
    [sid |-> session_id, phase |-> session.phase, current_step |-> session.current_step]

\* lines 197-203 writing back the cursor and the phase the call was made with
AppendReplyRestores(session, task) ==
    [Reply(session) EXCEPT !.current_step = task.current_step, !.phase = task.phase]

\* lines 197-203: the assistant message is appended to the session
AppendReply(session, task) == Reply(session)

\* the turn of the serial manager
SerialTurn(session_id, user_message, wallet_address) ==
    Put(serial, session_id,
        ProcessTurn(IF Has(serial, session_id) THEN serial[session_id]
                    ELSE NewSession(session_id, None, wallet_address),
                    user_message, wallet_address).session)

\* POST /api/orbit-ai/chat up to the await of generate_response; a go-back command
\* is answered without an await
TurnBegin(session_id, user_message, wallet_address) ==
    \E got \in {GetSession(Store, session_id, now)} :
    \E made \in {IF got.found \/ got.raised THEN got
                  ELSE CreateSession(got, session_id, None, wallet_address, now)} :
    \E turn \in {ProcessTurn(made.sessions[session_id], user_message, wallet_address)} :
    \E session \in (IF turn.kind = "go_back" THEN WithConfig(turn.session)
                     ELSE {AtAwait(turn.session)}) :
        /\ ~made.raised
        /\ sessions' = Put(made.sessions, session_id, session)
        /\ session_timestamps' = made.session_timestamps
        /\ now' = now
        /\ lastOp' = TurnOp(session_id, user_message, wallet_address, got.found,
                            made.sessions[session_id], turn)
        /\ answered' = TurnAnswered(session_id, got.found, made.sessions[session_id], turn)
        /\ awaiting' = IF turn.kind = "go_back" THEN awaiting
                       ELSE Append(awaiting, Suspended(session_id, turn.session))
        /\ serial' = SerialTurn(session_id, user_message, wallet_address)

\* generate_response returns to the k-th suspended turn: the rest of process_message
\* and of the chat handler
TurnEnd(k) ==
    \E task \in {awaiting[k]} :
    \E session \in WithConfig(AppendReply(sessions[task.sid], task)) :
        /\ sessions' = Put(sessions, task.sid, session)
        /\ awaiting' = [j \in 1..(Len(awaiting) - 1) |->
                            IF j < k THEN awaiting[j] ELSE awaiting[j + 1]]
        /\ lastOp' = [Handled("reply", task.sid, "ok", <<>>) EXCEPT !.step = task.current_step]
        /\ UNCHANGED <<session_timestamps, now, answered, serial>>

OverlapBegin ==
    /\ Len(awaiting) < MaxAwaiting
    /\ Has(sessions, SessionId)
            => Len(sessions[SessionId].messages) + Len(awaiting) < 1 + 2 * MaxOverlapTurns
    /\ \E r \in OverlapRequests : TurnBegin(SessionId, r[1], r[2])

OverlapEnd == \E k \in 1..Len(awaiting) : TurnEnd(k)

OverlapNext == OverlapBegin \/ OverlapEnd

SpecOverlap == Init /\ [][OverlapNext]_vars

(***************************************************************************)
(* C28: when turns of a session overlap, the cursor, the slot map and the  *)
(* phase of the session are at every moment those the same turns leave     *)
(* when they are taken one after the other in the order of their arrival,  *)
(* and a turn that extracted for another slot leaves the cursor where it   *)
(* found it: the retargeted cursor is in no state another turn can see.    *)
(***************************************************************************)
C28_OverlapIsSerial ==
    /\ \A session_id \in DOMAIN sessions :
           /\ Has(serial, session_id)
           /\ sessions[session_id].current_step = serial[session_id].current_step
           /\ sessions[session_id].collected_params = serial[session_id].collected_params
           /\ sessions[session_id].phase = serial[session_id].phase
    /\ (lastOp.kind = "turn" /\ lastOp.cross) =>
           /\ lastOp.target # lastOp.step
           /\ sessions[lastOp.sid].current_step = lastOp.step

\* two turns wait for the text generation: the first moved the cursor, the second
\* arrived then and wrote another slot
C28_Witness ==
    /\ Len(awaiting) = 2
    /\ awaiting[1].current_step = "chain_name"
    /\ lastOp.kind = "turn"
    /\ lastOp.cross
    /\ lastOp.extracted
    /\ SlotOf(Session, "parent_chain") = "arbitrum-one"
    /\ Session.current_step = "chain_name"

(***************************************************************************)
(* C29 as stated: after every store operation, whether it returned or      *)
(* raised, the sessions map and the timestamps map have the same key set.  *)
(***************************************************************************)
C29_SameKeySets == DOMAIN sessions = TsKeys(session_timestamps)

\* a config dict without its generated chain id
UpToChainId(config) == [config EXCEPT !.chainId = 0]

(***************************************************************************)
(* C30 as stated: the config a deploy request sends to the deployment      *)
(* service is, up to the generated chain id, the record assembled from the *)
(* slot map the request finds in the session.                              *)
(***************************************************************************)
C30_DeploysCurrentAnswers ==
    [][ (IsDeploy /\ lastOp'.calls # <<>>) =>
            \E built \in BuildFromSession(Before) :
                /\ built # Nothing
                /\ UpToChainId(built[1]) = UpToChainId(After.config[1]) ]_vars

(***************************************************************************)
(* Helpers of the properties of the parent_chain slot.                     *)
(***************************************************************************)
MainnetKeyword(message) == ContainsAny({"one", "main", "production"}, Lower(message))

TestnetKeyword(message) == ContainsAny({"sepolia", "test"}, Lower(message))

\* the keywords of every message of the corpus: mainnet, testnet, nova
chain_keywords ==
    [m \in Corpus |-> [mainnet |-> MainnetKeyword(m), testnet |-> TestnetKeyword(m),
                       nova |-> Contains("nova", Lower(m))]]

(***************************************************************************)
(* C22: the parent_chain slot never takes the mainnet value by default: a  *)
(* turn that changes the slot leaves arbitrum-sepolia in it (default       *)
(* propagation, affirmation, unmatched input) unless the message names     *)
(* nova or contains a mainnet keyword (one, main, production) and no       *)
(* testnet keyword, and only in the last case the slot holds arbitrum-one; *)
(* an answer to the parent_chain question without mainnet keyword and      *)
(* without nova leaves arbitrum-sepolia.                                   *)
(***************************************************************************)
C22_MainnetOnlyOnKeyword ==
    [][ lastOp'.outcome = "ok" =>
            LET Holds(old, new, keywords) ==
                    /\ new # old =>
                           \/ new = "arbitrum-sepolia"
                           \/ new = "arbitrum-nova" /\ keywords.nova
                           \/ new = "arbitrum-one" /\ keywords.mainnet /\ ~keywords.testnet
                    /\ (IsTurn /\ lastOp'.extracted /\ ~lastOp'.cross
                            /\ lastOp'.step = "parent_chain"
                            /\ ~keywords.mainnet /\ ~keywords.nova) =>
                           new = "arbitrum-sepolia"
            IN  Holds(SlotOf(Before, "parent_chain"), SlotOf(After, "parent_chain"),
                      chain_keywords[TurnMessage]) ]_vars

\* the propagated testnet default is replaced by the mainnet in a turn that names it
C22_Witness ==
    /\ Live
    /\ lastOp.kind = "turn"
    /\ lastOp.msg = "use rollup on mainnet"
    /\ lastOp.target = "parent_chain"
    /\ lastOp.was_default
    /\ SlotOf(Session, "parent_chain") = "arbitrum-one"

\* the default the preset kept in the session prescribes for a slot
ActiveDefault(session, slot) ==
    LET Of(mapping) == mapping[CHOOSE i \in 1..Len(mapping) : mapping[i][1] = slot][2]
    IN  Of(DefaultMapping(session.collected_params["_preset"]))

(***************************************************************************)
(* C31 as stated: in every reachable state, every slot of the              *)
(* default-provenance set holds the default that the preset of the session *)
(* prescribes for it (also after a go-back to use_case and the choice of   *)
(* another use case).                                                      *)
(***************************************************************************)
C31_FlaggedSlotsHoldPresetDefaults ==
    Live =>
        \A slot \in DefaultsOf(Session) :
            /\ Has(Session.collected_params, "_preset")
            /\ SlotOf(Session, slot) = ActiveDefault(Session, slot)

(***************************************************************************)
(* C32 as stated: after every turn (a go-back command included) the phase  *)
(* of the session is review if and only if the cursor is at complete.      *)
(***************************************************************************)
C32_ReviewIffComplete ==
    [][ lastOp'.kind \in {"turn", "go_back"} =>
            (After.phase = "review" <=> After.current_step = COMPLETE) ]_vars

\* the slots that precede the cursor of the session in the fixed order
Passed(session) ==
    {CONFIG_STEP_ORDER[i] : i \in 1..(StepIndex(session.current_step) - 1)}

(***************************************************************************)
(* C33 as stated: in every reachable state, every slot that precedes the   *)
(* cursor in the fixed order holds a value, and when the cursor is past    *)
(* owner_address the owner_address slot holds a valid address.             *)
(***************************************************************************)
C33_PassedSlotsHoldValues ==
    Live =>
        /\ \A slot \in Passed(Session) : Has(Session.collected_params, slot)
        /\ "owner_address" \in Passed(Session)
                => StrictAddress(SlotOf(Session, "owner_address"))

\* the validator counts the conversation collects (parse_validator_count_from_text)
ValidatorCounts == 1..20

\* the slot maps of a conversation that collected a use case and a validator count
ValidatorSlotMaps ==
    {[use_case |-> use_case, validators |-> count] :
        use_case \in DOMAIN USE_CASE_PRESETS, count \in ValidatorCounts}

InitValidators ==
    /\ sessions = EmptyDict
    /\ session_timestamps = EmptyDict
    /\ now = 0
    /\ answered = EmptyDict
    /\ awaiting = <<>>
    /\ serial = EmptyDict
    /\ lastOp \in {[kind |-> "slots", params |-> m, wallet |-> w] :
                        m \in ValidatorSlotMaps, w \in {None, Wallet}}

SpecValidators == InitValidators /\ [][AssembleCall]_vars

\* the addresses of a list are pairwise distinct
PairwiseDistinct(list) ==
    \A i, j \in 1..Len(list) : i # j => list[i] # list[j]

(***************************************************************************)
(* C34 as stated: for every validator count N in [1,20] collected by the   *)
(* conversation, the assembled configuration holds exactly N validator     *)
(* addresses, each matching the strict address pattern, and the addresses  *)
(* are pairwise distinct.                                                  *)
(***************************************************************************)
C34_DistinctPlaceholderValidators ==
    [][ (lastOp'.kind = "assemble" /\ lastOp'.params.validators \in ValidatorCounts) =>
            /\ lastOp'.config # Nothing
            /\ Len(lastOp'.config[1].validators) = lastOp'.params.validators
            /\ \A k \in 1..Len(lastOp'.config[1].validators) :
                    StrictAddress(lastOp'.config[1].validators[k])
            /\ PairwiseDistinct(lastOp'.config[1].validators) ]_vars

\* the roles of a transcript alternate, the assistant speaking first and last
Alternates(messages) ==
    /\ Len(messages) % 2 = 1
    /\ \A i \in 1..Len(messages) :
            messages[i] = IF i % 2 = 1 THEN "assistant" ELSE "user"

\* the number of user messages of a transcript
UserMessages(messages) == Cardinality({i \in 1..Len(messages) : messages[i] = "user"})

(***************************************************************************)
(* C35 as stated: the transcript of a session starts with the greeting of  *)
(* the assistant, and every turn (normal, cross-slot, casual, without a    *)
(* value, go-back) appends one user message followed by one assistant      *)
(* message to the transcript it found: the roles alternate and the length  *)
(* is 1 + 2 x the number of turns taken.                                   *)
(***************************************************************************)
C35_TranscriptAlternates ==
    [][ lastOp'.kind \in {"turn", "go_back"} =>
            /\ Before.messages[1] = "assistant"
            /\ After.messages = Before.messages \o <<"user", "assistant">>
            /\ Alternates(After.messages)
            /\ Len(After.messages) = 1 + 2 * UserMessages(After.messages) ]_vars

\* a go-back command taken after two other turns
C35_Witness ==
    /\ Live
    /\ lastOp.kind = "go_back"
    /\ Len(Session.messages) = 7

\* the number of turns a session has taken
Turns(session) == (Len(session.messages) - 1) \div 2

\* every turn the session has taken advanced the cursor by one
Straight(session) == StepIndex(session.current_step) = 1 + Turns(session)

\* the message of the step is a non-casual answer that the extractor of the current
\* slot accepts and that carries no keyword signal of another slot
AcceptedAnswer ==
    /\ lastOp'.kind \in {"turn", "go_back"}
    /\ ~is_casual_message[TurnMessage]
    /\ ForeignSignals = {}
    /\ Yield(Before.current_step) # Nothing

\* what the claim promises of a turn of a session whose turns all advanced
TowardsReview ==
    /\ StepIndex(After.current_step) = StepIndex(Before.current_step) + 1
    /\ After.current_step = COMPLETE <=> Turns(After) = 10
    /\ After.phase = "review" <=> Turns(After) = 10

RecordsDeployment ==
    \/ After.deployment_id # Before.deployment_id
    \/ After.deployment_status # Before.deployment_status

(***************************************************************************)
(* C37: in a deploy call the deploy request goes to the deployment service *)
(* only after the save-config request, the request right before it, was    *)
(* answered with success; the deployment id and the status "started" are   *)
(* recorded in the session only after the deploy request was answered with *)
(* success, and they are recorded then.                                    *)
(***************************************************************************)
C37_SaveThenDeployThenRecord ==
    [][ IsDeploy =>
            LET calls == lastOp'.calls
                Deployed == \E k \in 1..Len(calls) : calls[k] = Call("deploy", "success")
            IN  /\ \A k \in 1..Len(calls) :
                       calls[k].request = "deploy" =>
                           /\ k = 2
                           /\ calls[1] = Call("save", "success")
                /\ lastOp'.found =>
                       /\ RecordsDeployment => Deployed
                       /\ Deployed => After.deployment_status = "started"
                /\ lastOp'.outcome = "ok" <=> Deployed ]_vars

\* both requests were answered with success and the deployment is recorded
C37_Witness ==
    /\ Live
    /\ lastOp.kind = "deploy"
    /\ lastOp.outcome = "ok"
    /\ lastOp.calls = <<Call("save", "success"), Call("deploy", "success")>>
    /\ Session.deployment_status = "started"
    /\ Session.deployment_id \in DeploymentIds

\* the ten slots in the fixed order, without the complete marker
SlotOrder == SubSeq(CONFIG_STEP_ORDER, 1, Len(CONFIG_STEP_ORDER) - 1)

(***************************************************************************)
(* C38: at every cursor position the progress reported for the session     *)
(* lists as completed exactly the slots before the cursor and as remaining *)
(* exactly the slots from the cursor on, both in the fixed order and       *)
(* without the complete marker, together the 10 slots; the percentage is   *)
(* 10 x the index of the cursor (counted from 0), and it is 100 exactly    *)
(* when the cursor is at complete.                                         *)
(***************************************************************************)
C38_ProgressMatchesCursor ==
    LET Holds(progress, index) ==
            /\ progress.completed = SubSeq(SlotOrder, 1, index)
            /\ progress.remaining = SubSeq(SlotOrder, index + 1, Len(SlotOrder))
            /\ progress.completed \o progress.remaining = SlotOrder
            /\ Len(SlotOrder) = 10
            /\ progress.percentage = 10 * index
            /\ progress.percentage = 100 <=> Session.current_step = COMPLETE
    IN  Live => Holds(GetProgress(Session), StepIndex(Session.current_step) - 1)

\* the progress of a session that a go-back command took from complete to the last slot
C38_Witness ==
    /\ Live
    /\ lastOp.kind = "go_back"
    /\ lastOp.step = COMPLETE
    /\ Session.current_step = "challenge_period"
    /\ GetProgress(Session).percentage = 90
    /\ GetProgress(Session).remaining = <<"challenge_period">>

====
